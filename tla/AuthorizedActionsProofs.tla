------------------------ MODULE AuthorizedActionsProofs ------------------------
(***************************************************************************)
(* Who touches which row, for any tenants, actors, jobs, requests and worker   *)
(* loops: every statement runs in the context of its own flow, and that keeps   *)
(* it among the rows of its actor; owners find their jobs and workers what    *)
(* they claimed.                                                            *)
(***************************************************************************)
EXTENDS AuthorizedActions, TLAPS

\* The actor a flow acts for, and its context outside of a data-access scope.
Acting(f) == IF f \in Requests THEN provided[f] ELSE WorkerActor

Base(f) == IF f \in Requests THEN NoContext ELSE BeginActorScope(NoContext, WorkerActor)

Names(f) == IF f \in Requests THEN RequestActions ELSE WorkerActions

InAction == {"authorize", "scope", "statement", "close"} \cup ActionEnds

Authorized == {"scope", "statement", "close", "done"}

StepsOf(f) ==
    IF f \in Requests THEN {"idle"} \cup InAction
    ELSE IF f \in Workers THEN {"idle", "claimed", "handling", "stopping"} \cup InAction
    ELSE {"idle", "beating", "stopped"} \cup InAction

RowType ==
    [tenant : Tenants, owner : STRING, status : {"queued", "running", "finished"}]

CallType ==
    [name : RequestActions \cup WorkerActions, job : JobIds \cup {NoJob},
     actor : ActorType \cup {NoActor}, threw : BOOLEAN]

Types ==
    /\ rows \in [JobIds -> RowType \cup {NoRow}]
    /\ modelRules \in Operations \cup {NoOperation}
    /\ serving \in BOOLEAN
    /\ provided \in [Flows -> ActorType]
    /\ claimed \in [Workers -> JobIds \cup {NoJob}]
    /\ DOMAIN context = Flows /\ DOMAIN pc = Flows /\ DOMAIN call = Flows
    /\ DOMAIN found = Flows /\ DOMAIN saved = Flows
    /\ saved = [f \in Flows |-> saved[f]] /\ pc = [f \in Flows |-> pc[f]]
    /\ found = [f \in Flows |-> found[f]]
    /\ \A f \in Flows : DOMAIN saved[f] = {"action", "actor", "handler"}

Permitted(actor, row) ==
    /\ row.tenant = actor.tenant \/ Crosses(actor)
    /\ row.owner = actor.id \/ HasPermission(actor, "EmailManage") \/ Crosses(actor)

\* What holds of one flow.
StepIsLegal(f) ==
    /\ pc[f] \in StepsOf(f)
    /\ pc[f] \in InAction => call[f] \in CallType /\ call[f].name \in Names(f)
    /\ pc[f] \in Authorized =>
         call[f].actor = Acting(f) /\ HasPermission(Acting(f), Required(call[f].name))
    /\ pc[f] # "refused"

HandlesHoldBase(f) ==
    /\ pc[f] \in {"statement", "close"} => saved[f].action = Base(f)
    /\ pc[f] = "handling" => saved[f].handler = Base(f)
    /\ f \in Workers /\ pc[f] # "idle" => saved[f].actor = NoContext

FoundIsPermitted(f) ==
    /\ found[f] \subseteq Stored
    /\ found[f] # {} => call[f].actor = Acting(f) /\ pc[f] # "authorize"
    /\ \A j \in found[f] : Permitted(call[f].actor, rows[j])

ContextFits(f) == (f \in Heartbeats => pc[f] # "idle") => context[f] = OwnContext(f)

ClaimIsStored(f) ==
    f \in Workers /\ pc[f] \in {"claimed", "handling", "stopping"} => claimed[f] \in Stored

FlowInv(f) ==
    /\ StepIsLegal(f)
    /\ HandlesHoldBase(f)
    /\ FoundIsPermitted(f)
    /\ ContextFits(f)
    /\ ClaimIsStored(f)

IInv == Types /\ \A f \in Flows : FlowInv(f)

\* What a step of another flow leaves alone.
Same(g) ==
    /\ pc'[g] = pc[g] /\ call'[g] = call[g] /\ context'[g] = context[g]
    /\ saved'[g] = saved[g] /\ found'[g] = found[g] /\ provided'[g] = provided[g]
    /\ g \in Workers => claimed'[g] = claimed[g]

RowsKept ==
    \A j \in Stored : /\ j \in Stored'
                      /\ rows'[j].tenant = rows[j].tenant
                      /\ rows'[j].owner = rows[j].owner

-----------------------------------------------------------------------------
LEMMA ActorIsSomebody ==
    ASSUME NEW actor \in ActorType
    PROVE  actor # NoActor
  <1>1. DOMAIN actor = {"id", "tenant", "permissions"}
    BY DEF ActorType
  <1>2. DOMAIN NoActor = {"id"}
    BY DEF NoActor
  <1> QED  BY <1>1, <1>2

LEMMA WorkerActorType == WorkerActor \in ActorType /\ Configured \in ActorType
  BY ActorsAssumption

LEMMA RowIsThere ==
    ASSUME NEW row \in RowType
    PROVE  row # NoRow /\ row.tenant \in Tenants
  <1>1. DOMAIN row = {"tenant", "owner", "status"}
    BY DEF RowType
  <1>2. DOMAIN NoRow = {"status"}
    BY DEF NoRow
  <1> QED  BY <1>1, <1>2 DEF RowType

LEMMA StoredRows ==
    ASSUME Types
    PROVE  \A j \in Stored : rows[j] \in RowType
  BY DEF Types, Stored

LEMMA ActingType ==
    ASSUME Types, NEW f \in Flows
    PROVE  Acting(f) \in ActorType
  BY WorkerActorType DEF Acting, Types, Flows

\* In an action, the current actor of a flow is the one it acts for.
LEMMA CurrentActorIsActing ==
    ASSUME IInv, NEW f \in Flows, pc[f] \in InAction
    PROVE  /\ CurrentActor(context[f], provided[f]) = Acting(f)
           /\ Acting(f) \in ActorType
  <1>1. context[f] = OwnContext(f) /\ pc[f] \notin {"idle", "handling"}
    BY DEF IInv, FlowInv, ContextFits, InAction, ActionEnds
  <1>2. Base(f).actor = IF f \in Requests THEN NoActor ELSE WorkerActor
    BY DEF Base, NoContext, BeginActorScope
  <1>3. context[f].actor = Base(f).actor
    <2>1. CASE pc[f] \in {"statement", "close"}
      BY <1>1, <2>1 DEF OwnContext, Base, NoContext, BeginActorScope, BeginScope,
                        BeginCrossTenantScope
    <2>2. CASE pc[f] \notin {"statement", "close"}
      BY <1>1, <2>2 DEF OwnContext, Base
    <2> QED  BY <2>1, <2>2
  <1>4. WorkerActor # NoActor
    BY WorkerActorType, ActorIsSomebody
  <1> QED  BY <1>2, <1>3, <1>4, ActingType DEF CurrentActor, Acting, IInv

\* A flow keeps its invariant when others step.
LEMMA Frame ==
    ASSUME IInv, RowsKept, NEW g \in Flows, Same(g)
    PROVE  FlowInv(g)'
  <1> USE DEF IInv
  <1>1. FlowInv(g) /\ Types
    OBVIOUS
  <1>2. Acting(g)' = Acting(g) /\ Base(g)' = Base(g)
    BY DEF Acting, Base, Same
  <1>3. StepIsLegal(g)' /\ HandlesHoldBase(g)'
    BY <1>1, <1>2 DEF FlowInv, StepIsLegal, HandlesHoldBase, Same, Names, StepsOf
  <1>4. FoundIsPermitted(g)'
    BY <1>1, <1>2 DEF FlowInv, FoundIsPermitted, Same, RowsKept, Permitted
  <1>5. ClaimIsStored(g)'
    BY <1>1 DEF FlowInv, ClaimIsStored, Same, RowsKept
  <1>6. OwnContext(g)' = OwnContext(g)
    <2>1. pc[g] = "handling" => g \in Workers
      BY <1>1, FlowsAssumption DEF FlowInv, StepIsLegal, StepsOf, InAction, ActionEnds
    <2>2. pc[g] = "handling" => rows'[claimed'[g]].tenant = rows[claimed[g]].tenant
      BY <1>1, <2>1 DEF FlowInv, ClaimIsStored, Same, RowsKept
    <2> QED  BY <2>2 DEF OwnContext, Same
  <1>7. ContextFits(g)'
    BY <1>1, <1>6 DEF FlowInv, ContextFits, Same
  <1> QED  BY <1>3, <1>4, <1>5, <1>7 DEF FlowInv

LEMMA OneFlow ==
    ASSUME IInv, Types', RowsKept, NEW f \in Flows, FlowInv(f)',
           \A g \in Flows \ {f} : Same(g)
    PROVE  IInv'
  <1>1. \A g \in Flows : FlowInv(g)'
    BY Frame
  <1> QED  BY <1>1 DEF IInv

\* A step that leaves the rows alone keeps them.
LEMMA RowsUnchanged == ASSUME UNCHANGED rows PROVE RowsKept
  BY DEF RowsKept, Stored

\* What an authorized action asks for is granted, and fits its scope.
LEMMA ScopeIsGranted ==
    ASSUME NEW name \in RequestActions \cup WorkerActions, NEW actor \in ActorType,
           HasPermission(actor, Required(name))
    PROVE  /\ ScopeOf(name, actor) = AllTenants => Crosses(actor)
           /\ ScopeOf(name, actor) # AllTenants => ScopeOf(name, actor) = actor.tenant
  <1>1. actor.tenant # AllTenants
    BY TenantsAssumption DEF ActorType
  <1>2. name \in WorkerActions => HasPermission(actor, "Execute")
    BY DEF Required, WorkerActions, RequestActions
  <1> QED  BY <1>1, <1>2 DEF ScopeOf, Crosses

LEMMA InitIInv == Init => IInv
  <1> SUFFICES ASSUME Init PROVE IInv
    OBVIOUS
  <1>1. Types
    BY WorkerActorType DEF Init, Types, NoHandles
  <1>2. ASSUME NEW f \in Flows PROVE FlowInv(f)
    <2>1. pc[f] = "idle" /\ found[f] = {} /\ context[f] = NoContext
      BY DEF Init
    <2>2. StepIsLegal(f)
      BY <2>1 DEF StepIsLegal, StepsOf, InAction, ActionEnds, Authorized
    <2>3. OwnContext(f) = NoContext
      BY <2>1 DEF OwnContext
    <2> QED  BY <2>1, <2>2, <2>3
             DEF FlowInv, HandlesHoldBase, FoundIsPermitted, ContextFits, ClaimIsStored
  <1> QED  BY <1>1, <1>2 DEF IInv

-----------------------------------------------------------------------------
(* JobAuthorizedAction.ExecuteAsync *)

LEMMA AuthorizeIInv ==
    ASSUME IInv, NEW f \in Flows, Authorize(f)
    PROVE  IInv'
  <1> USE DEF IInv
  <1>1. pc[f] = "authorize" /\ FlowInv(f) /\ Types
    BY DEF Authorize
  <1>2. /\ CurrentActor(context[f], provided[f]) = Acting(f)
        /\ Acting(f) \in ActorType
    BY <1>1, CurrentActorIsActing DEF InAction
  <1>3. call[f] \in CallType /\ call[f].name \in Names(f)
    BY <1>1 DEF FlowInv, StepIsLegal, InAction
  <1>4. /\ call' = [call EXCEPT ![f].actor = Acting(f)]
        /\ pc' = [pc EXCEPT ![f] = IF HasPermission(Acting(f), Required(call[f].name))
                                   THEN "scope" ELSE "denied"]
        /\ UNCHANGED <<rows, modelRules, serving, context, provided, saved, found, claimed>>
    BY <1>2 DEF Authorize, GoTo
  <1>5. /\ call'[f] \in CallType /\ call'[f].name = call[f].name
        /\ call'[f].actor = Acting(f)
    BY <1>1, <1>2, <1>3, <1>4 DEF Types, CallType
  <1>6. pc'[f] = IF HasPermission(Acting(f), Required(call[f].name)) THEN "scope" ELSE "denied"
    BY <1>1, <1>4 DEF Types
  <1>7. Acting(f)' = Acting(f) /\ Base(f)' = Base(f)
    BY <1>4 DEF Acting, Base
  <1>8. Types'
    BY <1>1, <1>4 DEF Types
  <1>9. StepIsLegal(f)'
    BY <1>1, <1>3, <1>5, <1>6, <1>7
       DEF StepIsLegal, StepsOf, InAction, ActionEnds, Authorized, Names
  <1>10. HandlesHoldBase(f)'
    BY <1>1, <1>4, <1>6 DEF FlowInv, HandlesHoldBase
  <1>11. FoundIsPermitted(f)'
    <2>1. found'[f] = {}
      BY <1>1, <1>4 DEF FlowInv, FoundIsPermitted
    <2> QED  BY <2>1 DEF FoundIsPermitted
  <1>12. ContextFits(f)'
    BY <1>1, <1>4, <1>6, <1>7 DEF FlowInv, ContextFits, OwnContext
  <1>13. ClaimIsStored(f)'
    BY <1>6 DEF ClaimIsStored
  <1>14. \A g \in Flows \ {f} : Same(g)
    BY <1>1, <1>4 DEF Same, Types
  <1>15. RowsKept
    BY <1>4, RowsUnchanged
  <1> QED  BY <1>8, <1>9, <1>10, <1>11, <1>12, <1>13, <1>14, <1>15, OneFlow DEF FlowInv

LEMMA OpenScopeIInv ==
    ASSUME IInv, NEW f \in Flows, OpenScope(f)
    PROVE  IInv'
  <1> USE DEF IInv
  <1> DEFINE name == call[f].name
             actor == call[f].actor
             scope == ScopeOf(name, actor)
             opened == IF scope = AllTenants
                       THEN BeginCrossTenantScope(context[f], OperationOf(name))
                       ELSE BeginScope(context[f], scope, OperationOf(name))
  <1>1. pc[f] = "scope" /\ FlowInv(f) /\ Types
    BY DEF OpenScope
  <1>2. /\ name \in Names(f) /\ call[f] \in CallType
        /\ actor = Acting(f) /\ HasPermission(actor, Required(name))
    BY <1>1 DEF FlowInv, StepIsLegal, InAction, Authorized
  <1>3. CurrentActor(context[f], provided[f]) = actor /\ actor \in ActorType
    BY <1>1, <1>2, CurrentActorIsActing DEF InAction
  <1>4. IF scope = AllTenants THEN MayCrossTenants(context[f], provided[f])
                              ELSE MayBeginScope(context[f], scope)
    BY <1>2, <1>3, ScopeIsGranted DEF MayCrossTenants, MayBeginScope, Crosses, CallType
  <1>5. /\ saved' = [saved EXCEPT ![f]["action"] = context[f]]
        /\ context' = [context EXCEPT ![f] = opened]
        /\ pc' = [pc EXCEPT ![f] = "statement"]
        /\ UNCHANGED <<rows, modelRules, serving, provided, call, found, claimed>>
    BY <1>4 DEF OpenScope, Save, SetContext, GoTo
  <1>6. /\ pc'[f] = "statement" /\ context'[f] = opened
        /\ saved'[f].action = context[f] /\ saved'[f].actor = saved[f].actor
    BY <1>1, <1>5 DEF Types
  <1>7. Acting(f)' = Acting(f) /\ Base(f)' = Base(f)
    BY <1>5 DEF Acting, Base
  <1>8. context[f] = Base(f)
    BY <1>1 DEF FlowInv, ContextFits, OwnContext, Base
  <1>9. Types'
    BY <1>1, <1>5 DEF Types
  <1>10. StepIsLegal(f)'
    BY <1>1, <1>2, <1>5, <1>6, <1>7
       DEF FlowInv, StepIsLegal, StepsOf, InAction, Authorized, Names
  <1>11. HandlesHoldBase(f)'
    BY <1>1, <1>6, <1>7, <1>8 DEF FlowInv, HandlesHoldBase
  <1>12. FoundIsPermitted(f)'
    BY <1>1, <1>5, <1>6, <1>7 DEF FlowInv, FoundIsPermitted, Stored
  <1>13. OwnContext(f)' = opened
    BY <1>5, <1>6, <1>7, <1>8 DEF OwnContext, Base
  <1>14. ContextFits(f)' /\ ClaimIsStored(f)'
    BY <1>6, <1>13 DEF ContextFits, ClaimIsStored
  <1>15. \A g \in Flows \ {f} : Same(g)
    BY <1>1, <1>5 DEF Same, Types
  <1>16. RowsKept
    BY <1>5, RowsUnchanged
  <1> QED  BY <1>9, <1>10, <1>11, <1>12, <1>14, <1>15, <1>16, OneFlow DEF FlowInv

\* What the query filter lets through, whichever rules it was built from.
\* The query filter of a statement: the rules in force, for the actor of the action and
\* in the scope it asked for.
LEMMA FilterInForce ==
    ASSUME IInv, NEW f \in Flows, pc[f] = "statement"
    PROVE  LET scope == ScopeOf(call[f].name, Acting(f)) IN
           /\ RulesInForce(f) \in Operations
           /\ Visible(f) = {j \in Stored : Filter(RulesInForce(f), Acting(f), scope, rows[j])}
           /\ scope = AllTenants => Crosses(Acting(f))
           /\ scope # AllTenants => scope = Acting(f).tenant
  <1> USE DEF IInv
  <1> DEFINE name == call[f].name
             scope == ScopeOf(name, Acting(f))
  <1>1. /\ Types /\ call[f] \in CallType /\ call[f].actor = Acting(f)
        /\ HasPermission(Acting(f), Required(name))
    BY DEF FlowInv, StepIsLegal, InAction, Authorized
  <1>2. Acting(f) \in ActorType /\ CurrentActor(context[f], provided[f]) = Acting(f)
    BY CurrentActorIsActing DEF InAction
  <1>3. context[f].scope = scope /\ context[f].operation = OperationOf(name)
    <2>1. context[f] = OwnContext(f)
      BY DEF FlowInv, ContextFits
    <2> QED  BY <1>1, <2>1 DEF OwnContext, BeginScope, BeginCrossTenantScope, NoContext,
                               BeginActorScope
  <1>4. /\ scope = AllTenants => Crosses(Acting(f))
        /\ scope # AllTenants => scope = Acting(f).tenant
    BY <1>1, <1>2, ScopeIsGranted DEF CallType
  <1>5. scope # NoScope
    <2>1. AllTenants # NoScope
      BY DEF AllTenants, NoScope
    <2>2. Acting(f).tenant \in Tenants
      BY <1>2 DEF ActorType
    <2> HIDE DEF scope
    <2> QED  BY <1>4, <2>1, <2>2, TenantsAssumption
  <1>6. CurrentScope(context[f], provided[f]) = scope
    BY <1>3, <1>5 DEF CurrentScope
  <1>7. RulesInForce(f) \in Operations
    <2>1. modelRules \in Operations \cup {NoOperation} /\ OperationOf(name) \in Operations
      BY <1>1 DEF Types, OperationOf, Operations
    <2>2. NoOperation \notin Operations
      BY DEF NoOperation, Operations
    <2>3. CurrentOperation(context[f]) \in Operations
      BY <1>3, <2>1, <2>2 DEF CurrentOperation
    <2> QED  BY <2>1, <2>3 DEF RulesInForce
  <1> QED  BY <1>2, <1>4, <1>6, <1>7 DEF Visible

LEMMA VisibleIsPermitted ==
    ASSUME IInv, NEW f \in Flows, pc[f] = "statement"
    PROVE  /\ RulesInForce(f) \in Operations
           /\ \A j \in Visible(f) : j \in Stored /\ Permitted(Acting(f), rows[j])
  <1> DEFINE scope == ScopeOf(call[f].name, Acting(f))
  <1>1. RulesInForce(f) \in Operations
    BY FilterInForce
  <1>2. ASSUME NEW j \in Visible(f) PROVE j \in Stored /\ Permitted(Acting(f), rows[j])
    <2>1. j \in Stored /\ Filter(RulesInForce(f), Acting(f), scope, rows[j])
      BY FilterInForce
    <2>2. rows[j].tenant = Acting(f).tenant \/ Crosses(Acting(f))
      BY <2>1, FilterInForce DEF Filter, InBoundary
    <2>3. PICK rule \in GrantRules(RulesInForce(f)) : Granted(rule, Acting(f), rows[j])
      BY <2>1 DEF Filter
    <2>4. rule \in {"Owner", "EmailManage", "GlobalRead", "Execute"}
      BY <1>1, <2>3 DEF GrantRules, Operations
    <2> QED  BY <2>1, <2>2, <2>3, <2>4 DEF Permitted, Granted, Crosses
  <1> QED  BY <1>1, <1>2

\* What a statement does to the table: rows are added and change their status.
LEMMA PerformsFacts ==
    ASSUME IInv, NEW f \in Flows, pc[f] = "statement", Performs(f)
    PROVE  /\ rows' \in [JobIds -> RowType \cup {NoRow}]
           /\ RowsKept
           /\ found' = [found EXCEPT ![f] = found'[f]]
           /\ \A j \in found'[f] : j \in Stored' /\ Permitted(Acting(f), rows'[j])
  <1> USE DEF IInv
  <1> DEFINE name == call[f].name
             job == call[f].job
             actor == call[f].actor
             queued == {j \in Visible(f) : rows[j].status = "queued"}
             held == {job} \cap {j \in Visible(f) : rows[j].status = "running"}
  <1>1. /\ Types /\ actor = Acting(f) /\ Acting(f) \in ActorType
        /\ \A j \in Visible(f) : j \in Stored /\ Permitted(Acting(f), rows[j])
        /\ \A j \in found[f] : j \in Stored /\ Permitted(Acting(f), rows[j])
    BY VisibleIsPermitted, ActingType
       DEF FlowInv, StepIsLegal, FoundIsPermitted, InAction, Authorized
  <1>2. \A j \in Stored : rows[j] \in RowType /\ j \in JobIds
    BY <1>1, StoredRows DEF Stored
  <1>3. DOMAIN found = Flows /\ found = [found EXCEPT ![f] = found[f]]
    BY <1>1 DEF Types
  <1>4. ASSUME UNCHANGED rows, NEW seen \in SUBSET Visible(f),
               found' = [found EXCEPT ![f] = seen]
        PROVE  /\ found' = [found EXCEPT ![f] = found'[f]]
               /\ \A j \in found'[f] : j \in Stored' /\ Permitted(Acting(f), rows'[j])
               /\ RowsKept /\ rows' \in [JobIds -> RowType \cup {NoRow}]
    BY <1>1, <1>3, <1>4, RowsUnchanged DEF Stored, Types
  <1>5. ASSUME NEW j \in Stored, NEW status \in {"queued", "running", "finished"},
               SetStatus(j, status)
        PROVE  /\ rows' \in [JobIds -> RowType \cup {NoRow}]
               /\ RowsKept
    <2>1. /\ rows' = [rows EXCEPT ![j] = [rows[j] EXCEPT !.status = status]]
          /\ [rows[j] EXCEPT !.status = status] \in RowType
          /\ [rows[j] EXCEPT !.status = status].tenant = rows[j].tenant
          /\ [rows[j] EXCEPT !.status = status].owner = rows[j].owner
      BY <1>2, <1>5 DEF SetStatus, RowType
    <2>2. rows' \in [JobIds -> RowType \cup {NoRow}]
      BY <1>1, <2>1 DEF Types
    <2>3. rows'[j] # NoRow
      BY <1>1, <1>2, <2>1, RowIsThere DEF Types
    <2> QED  BY <1>1, <1>2, <2>1, <2>2, <2>3 DEF RowsKept, Stored, Types
  <1>6. ASSUME RowsKept, NEW seen \in SUBSET Visible(f), found' = [found EXCEPT ![f] = seen]
        PROVE  /\ found' = [found EXCEPT ![f] = found'[f]]
               /\ \A j \in found'[f] : j \in Stored' /\ Permitted(Acting(f), rows'[j])
    BY <1>1, <1>3, <1>6 DEF RowsKept, Permitted
  <1>7. CASE name \in {"ListJobs", "GetJobById", "AcknowledgeJob"}
    <2>1. UNCHANGED rows /\ \E seen \in SUBSET Visible(f) : found' = [found EXCEPT ![f] = seen]
      BY <1>7 DEF Performs
    <2> QED  BY <1>4, <2>1
  <1>8. CASE name = "EnqueueJob"
    <2>1. PICK new \in JobIds \ Stored :
             /\ rows' = [rows EXCEPT ![new] = Row(actor.tenant, actor.id, "queued")]
             /\ found' = [found EXCEPT ![f] = {new}]
      BY <1>8 DEF Performs
    <2>2. Row(actor.tenant, actor.id, "queued") \in RowType
      BY <1>1 DEF Row, RowType, ActorType
    <2>3. rows' \in [JobIds -> RowType \cup {NoRow}] /\ rows'[new] \in RowType
      BY <1>1, <2>1, <2>2 DEF Types
    <2>4. RowsKept
      BY <1>1, <2>1, <2>3 DEF RowsKept, Stored, Types
    <2>5. new \in Stored' /\ Permitted(Acting(f), rows'[new])
      <3>1. rows'[new] = Row(Acting(f).tenant, Acting(f).id, "queued")
        BY <1>1, <2>1 DEF Types
      <3> QED  BY <2>3, <3>1, RowIsThere DEF Stored, Permitted, Row
    <2> QED  BY <1>3, <2>1, <2>3, <2>4, <2>5
  <1>9. CASE name = "ClaimNextDueJob"
    <2>1. CASE UNCHANGED <<rows, found>>
      BY <1>1, <1>3, <2>1, RowsUnchanged DEF Types, Stored
    <2>2. CASE \E j \in queued : SetStatus(j, "running") /\ found' = [found EXCEPT ![f] = {j}]
      <3>1. PICK j \in queued : SetStatus(j, "running") /\ found' = [found EXCEPT ![f] = {j}]
        BY <2>2
      <3>2. j \in Stored /\ {j} \in SUBSET Visible(f)
        BY <1>1
      <3>3. RowsKept /\ rows' \in [JobIds -> RowType \cup {NoRow}]
        BY <1>5, <3>1, <3>2
      <3> QED  BY <1>6, <3>1, <3>2, <3>3
    <2> QED  BY <1>9, <2>1, <2>2 DEF Performs
  <1>10. CASE name = "RenewJobLease"
    <2>1. UNCHANGED rows /\ \E seen \in SUBSET Visible(f) : found' = [found EXCEPT ![f] = seen]
      BY <1>10 DEF Performs
    <2> QED  BY <1>4, <2>1
  <1>11. CASE name = "CompleteJobExecution"
    <2>1. held \in SUBSET Visible(f) /\ found' = [found EXCEPT ![f] = held]
      BY <1>11 DEF Performs
    <2>2. CASE held = {}
      BY <1>4, <1>11, <2>1, <2>2 DEF Performs
    <2>3. CASE held # {}
      <3>1. job \in Stored
        BY <1>1, <2>3
      <3>2. PICK status \in {"queued", "finished"} : SetStatus(job, status)
        BY <1>11, <2>3 DEF Performs
      <3> QED  BY <1>5, <1>6, <2>1, <3>1, <3>2
    <2> QED  BY <2>2, <2>3
  <1> QED  BY <1>7, <1>8, <1>9, <1>10, <1>11 DEF Performs

LEMMA StatementIInv ==
    ASSUME IInv, NEW f \in Flows, Statement(f)
    PROVE  IInv'
  <1> USE DEF IInv
  <1>1. pc[f] = "statement" /\ FlowInv(f) /\ Types /\ Performs(f)
    BY DEF Statement
  <1>2. /\ rows' \in [JobIds -> RowType \cup {NoRow}] /\ RowsKept
        /\ found' = [found EXCEPT ![f] = found'[f]]
        /\ \A j \in found'[f] : j \in Stored' /\ Permitted(Acting(f), rows'[j])
    BY <1>1, PerformsFacts
  <1>3. /\ modelRules' \in Operations
        /\ pc' = [pc EXCEPT ![f] = "close"]
        /\ UNCHANGED <<serving, context, provided, saved, call, claimed>>
    BY <1>1, VisibleIsPermitted DEF Statement, GoTo
  <1>4. pc'[f] = "close" /\ call[f].actor = Acting(f)
    BY <1>1, <1>3 DEF Types, FlowInv, StepIsLegal, Authorized
  <1>5. Acting(f)' = Acting(f) /\ Base(f)' = Base(f)
    BY <1>3 DEF Acting, Base
  <1>6. Types'
    BY <1>1, <1>2, <1>3 DEF Types
  <1>7. StepIsLegal(f)'
    BY <1>1, <1>3, <1>4, <1>5 DEF FlowInv, StepIsLegal, StepsOf, InAction, Authorized, Names
  <1>8. HandlesHoldBase(f)' /\ ClaimIsStored(f)'
    BY <1>1, <1>3, <1>4, <1>5 DEF FlowInv, HandlesHoldBase, ClaimIsStored
  <1>9. FoundIsPermitted(f)'
    BY <1>2, <1>3, <1>4, <1>5 DEF FoundIsPermitted
  <1>10. ContextFits(f)'
    BY <1>1, <1>3, <1>4, <1>5 DEF FlowInv, ContextFits, OwnContext
  <1>11. \A g \in Flows \ {f} : Same(g)
    BY <1>1, <1>2, <1>3 DEF Same, Types
  <1> QED  BY <1>2, <1>6, <1>7, <1>8, <1>9, <1>10, <1>11, OneFlow DEF FlowInv

\* Reject and StatementThrows: the action goes on to close its scope.
LEMMA NoStatementIInv ==
    ASSUME IInv, NEW f \in Flows, Reject(f) \/ StatementThrows(f)
    PROVE  IInv'
  <1> USE DEF IInv
  <1>1. pc[f] = "statement" /\ FlowInv(f) /\ Types
    BY DEF Reject, StatementThrows
  <1>2. /\ modelRules' \in Operations \cup {NoOperation}
        /\ pc' = [pc EXCEPT ![f] = "close"]
        /\ call' = call \/ call' = [call EXCEPT ![f].threw = TRUE]
        /\ UNCHANGED <<rows, serving, context, provided, saved, found, claimed>>
    <2>1. CASE Reject(f)
      BY <1>1, <2>1 DEF Reject, GoTo, Types
    <2>2. CASE StatementThrows(f)
      BY <1>1, <2>2, VisibleIsPermitted, ZenonT(60) DEF StatementThrows, GoTo, Types
    <2> QED  BY <2>1, <2>2
  <1>3. call[f] \in CallType /\ call[f].name \in Names(f) /\ call[f].actor = Acting(f)
    BY <1>1 DEF FlowInv, StepIsLegal, InAction, Authorized
  <1>4. /\ call'[f] \in CallType /\ call'[f].name = call[f].name
        /\ call'[f].actor = call[f].actor
    <2>1. CASE call' = call
      BY <1>3, <2>1
    <2>2. CASE call' = [call EXCEPT ![f].threw = TRUE]
      BY <1>1, <1>3, <2>2 DEF Types, CallType
    <2> QED  BY <1>2, <2>1, <2>2
  <1>5. pc'[f] = "close"
    BY <1>1, <1>2 DEF Types
  <1>6. Acting(f)' = Acting(f) /\ Base(f)' = Base(f)
    BY <1>2 DEF Acting, Base
  <1>7. Types'
    BY <1>1, <1>2 DEF Types
  <1>8. StepIsLegal(f)'
    BY <1>1, <1>3, <1>4, <1>5, <1>6
       DEF FlowInv, StepIsLegal, StepsOf, InAction, Authorized, Names
  <1>9. HandlesHoldBase(f)' /\ ClaimIsStored(f)'
    BY <1>1, <1>2, <1>5, <1>6 DEF FlowInv, HandlesHoldBase, ClaimIsStored
  <1>10. FoundIsPermitted(f)'
    BY <1>1, <1>2, <1>3, <1>4, <1>5, <1>6 DEF FlowInv, FoundIsPermitted, Stored
  <1>11. ContextFits(f)'
    BY <1>1, <1>2, <1>4, <1>5, <1>6 DEF FlowInv, ContextFits, OwnContext
  <1>12. \A g \in Flows \ {f} : Same(g)
    BY <1>1, <1>2 DEF Same, Types
  <1>13. RowsKept
    BY <1>2, RowsUnchanged
  <1> QED  BY <1>7, <1>8, <1>9, <1>10, <1>11, <1>12, <1>13, OneFlow DEF FlowInv

\* Closing a scope leads back to the context it was opened in.
LEMMA EndScopeRestores ==
    ASSUME NEW f \in Flows, NEW scope, NEW operation
    PROVE  /\ EndScope(BeginScope(Base(f), scope, operation), Base(f)) = Base(f)
           /\ EndScope(BeginCrossTenantScope(Base(f), operation), Base(f)) = Base(f)
  BY DEF EndScope, BeginScope, BeginCrossTenantScope, Base, NoContext, BeginActorScope

LEMMA CloseScopeIInv ==
    ASSUME IInv, NEW f \in Flows, CloseScope(f)
    PROVE  IInv'
  <1> USE DEF IInv
  <1>1. pc[f] = "close" /\ FlowInv(f) /\ Types
    BY DEF CloseScope
  <1>2. /\ context' = [context EXCEPT ![f] = EndScope(context[f], saved[f].action)]
        /\ saved' = [saved EXCEPT ![f].action = NoContext]
        /\ pc' = [pc EXCEPT ![f] = "done"]
        /\ UNCHANGED <<rows, modelRules, serving, provided, call, found, claimed>>
    BY DEF CloseScope, SetContext, GoTo
  <1>3. saved[f].action = Base(f) /\ context[f] = OwnContext(f)
    BY <1>1 DEF FlowInv, HandlesHoldBase, ContextFits
  <1>4. EndScope(context[f], saved[f].action) = Base(f)
    <2>1. \/ context[f] = BeginCrossTenantScope(Base(f), OperationOf(call[f].name))
          \/ context[f] = BeginScope(Base(f), ScopeOf(call[f].name, call[f].actor),
                                     OperationOf(call[f].name))
      BY <1>1, <1>3 DEF OwnContext, Base
    <2> QED  BY <1>3, <2>1, EndScopeRestores
  <1>5. /\ pc'[f] = "done" /\ context'[f] = Base(f) /\ saved'[f].actor = saved[f].actor
    BY <1>1, <1>2, <1>4 DEF Types
  <1>6. Acting(f)' = Acting(f) /\ Base(f)' = Base(f)
    BY <1>2 DEF Acting, Base
  <1>7. Types'
    BY <1>1, <1>2 DEF Types
  <1>8. StepIsLegal(f)'
    BY <1>1, <1>2, <1>5, <1>6
       DEF FlowInv, StepIsLegal, StepsOf, InAction, ActionEnds, Authorized, Names
  <1>9. HandlesHoldBase(f)' /\ ClaimIsStored(f)'
    BY <1>1, <1>5 DEF FlowInv, HandlesHoldBase, ClaimIsStored
  <1>10. FoundIsPermitted(f)'
    BY <1>1, <1>2, <1>5, <1>6 DEF FlowInv, FoundIsPermitted, Stored
  <1>11. ContextFits(f)'
    BY <1>5, <1>6 DEF ContextFits, OwnContext, Base
  <1>12. \A g \in Flows \ {f} : Same(g)
    BY <1>1, <1>2 DEF Same, Types
  <1>13. RowsKept
    BY <1>2, RowsUnchanged
  <1> QED  BY <1>7, <1>8, <1>9, <1>10, <1>11, <1>12, <1>13, OneFlow DEF FlowInv

-----------------------------------------------------------------------------
(* HTTP requests. *)

LEMMA ReceiveIInv ==
    ASSUME IInv, NEW f \in Requests, Receive(f)
    PROVE  IInv'
  <1> USE DEF IInv
  <1>1. f \in Flows /\ f \notin Workers /\ f \notin Heartbeats /\ Types /\ FlowInv(f)
    BY FlowsAssumption DEF Flows
  <1>2. PICK actor \in Actors, name \in RequestActions, job \in JobIds :
          /\ provided' = [provided EXCEPT ![f] = actor]
          /\ call' = [call EXCEPT ![f] = Call(name, job, NoActor)]
          /\ found' = [found EXCEPT ![f] = {}]
          /\ pc' = [pc EXCEPT ![f] = "authorize"]
    BY DEF Receive, Execute, GoTo
  <1>3. /\ context' = [context EXCEPT ![f] = NoContext]
        /\ UNCHANGED <<rows, modelRules, serving, saved, claimed>>
    BY DEF Receive, SetContext
  <1>4. /\ pc'[f] = "authorize" /\ found'[f] = {} /\ context'[f] = NoContext
        /\ call'[f] = Call(name, job, NoActor)
    BY <1>1, <1>2, <1>3 DEF Types
  <1>5. actor \in ActorType
    BY <1>2, ActorsAssumption
  <1>6. Types'
    BY <1>1, <1>2, <1>3, <1>5 DEF Types
  <1>7. StepIsLegal(f)'
    BY <1>4 DEF StepIsLegal, StepsOf, InAction, ActionEnds, Authorized, Names, CallType, Call
  <1>8. HandlesHoldBase(f)' /\ ClaimIsStored(f)' /\ FoundIsPermitted(f)'
    BY <1>1, <1>4 DEF HandlesHoldBase, ClaimIsStored, FoundIsPermitted
  <1>9. ContextFits(f)'
    BY <1>4 DEF ContextFits, OwnContext
  <1>10. \A g \in Flows \ {f} : Same(g)
    BY <1>1, <1>2, <1>3 DEF Same, Types
  <1>11. RowsKept
    BY <1>3, RowsUnchanged
  <1> QED  BY <1>1, <1>6, <1>7, <1>8, <1>9, <1>10, <1>11, OneFlow DEF FlowInv

LEMMA RespondIInv ==
    ASSUME IInv, NEW f \in Requests, Respond(f)
    PROVE  IInv'
  <1> USE DEF IInv
  <1>1. f \in Flows /\ f \notin Workers /\ f \notin Heartbeats /\ Types /\ FlowInv(f)
    BY FlowsAssumption DEF Flows
  <1>2. /\ pc' = [pc EXCEPT ![f] = "idle"]
        /\ call' = [call EXCEPT ![f] = NoCall]
        /\ found' = [found EXCEPT ![f] = {}]
        /\ UNCHANGED <<rows, modelRules, serving, context, provided, saved, claimed>>
    BY DEF Respond, GoTo
  <1>3. pc'[f] = "idle" /\ found'[f] = {}
    BY <1>1, <1>2 DEF Types
  <1>4. context[f] = NoContext
    BY <1>1 DEF Respond, FlowInv, ContextFits, OwnContext, ActionEnds
  <1>5. Types'
    BY <1>1, <1>2 DEF Types
  <1>6. StepIsLegal(f)'
    BY <1>3 DEF StepIsLegal, StepsOf, InAction, ActionEnds, Authorized
  <1>7. HandlesHoldBase(f)' /\ ClaimIsStored(f)' /\ FoundIsPermitted(f)'
    BY <1>1, <1>3 DEF HandlesHoldBase, ClaimIsStored, FoundIsPermitted
  <1>8. ContextFits(f)'
    BY <1>2, <1>3, <1>4 DEF ContextFits, OwnContext
  <1>9. \A g \in Flows \ {f} : Same(g)
    BY <1>1, <1>2 DEF Same, Types
  <1>10. RowsKept
    BY <1>2, RowsUnchanged
  <1> QED  BY <1>1, <1>5, <1>6, <1>7, <1>8, <1>9, <1>10, OneFlow DEF FlowInv

-----------------------------------------------------------------------------
(* Worker loops and their heartbeats. *)

LEMMA WorkerFlows ==
    ASSUME NEW w \in Workers
    PROVE  /\ w \in Flows /\ w \notin Requests /\ w \notin Heartbeats
           /\ Heartbeat(w) \in Heartbeats /\ Heartbeat(w) \in Flows
           /\ Heartbeat(w) \notin Requests /\ Heartbeat(w) \notin Workers
  BY FlowsAssumption DEF Flows, Heartbeats

LEMMA BeginPassIInv ==
    ASSUME IInv, NEW w \in Workers, BeginPass(w)
    PROVE  IInv'
  <1> USE DEF IInv
  <1>1. w \in Flows /\ w \notin Requests /\ w \notin Heartbeats /\ Types /\ FlowInv(w)
    BY WorkerFlows
  <1>2. /\ pc[w] = "idle"
        /\ saved' = [saved EXCEPT ![w]["actor"] = context[w]]
        /\ context' = [context EXCEPT ![w] = BeginActorScope(context[w], WorkerActor)]
        /\ call' = [call EXCEPT ![w] = Call("ClaimNextDueJob", NoJob, NoActor)]
        /\ found' = [found EXCEPT ![w] = {}]
        /\ pc' = [pc EXCEPT ![w] = "authorize"]
        /\ UNCHANGED <<rows, modelRules, serving, provided, claimed>>
    BY DEF BeginPass, Save, SetContext, Execute, GoTo
  <1>3. context[w] = NoContext
    BY <1>1, <1>2 DEF FlowInv, ContextFits, OwnContext
  <1>4. /\ pc'[w] = "authorize" /\ found'[w] = {} /\ saved'[w].actor = NoContext
        /\ context'[w] = BeginActorScope(NoContext, WorkerActor)
        /\ call'[w] = Call("ClaimNextDueJob", NoJob, NoActor)
    BY <1>1, <1>2, <1>3 DEF Types
  <1>5. Types'
    BY <1>1, <1>2 DEF Types
  <1>6. StepIsLegal(w)'
    BY <1>1, <1>4 DEF StepIsLegal, StepsOf, InAction, ActionEnds, Authorized, Names, CallType,
                      Call, WorkerActions
  <1>7. HandlesHoldBase(w)' /\ ClaimIsStored(w)' /\ FoundIsPermitted(w)'
    BY <1>4 DEF HandlesHoldBase, ClaimIsStored, FoundIsPermitted
  <1>8. ContextFits(w)'
    BY <1>1, <1>4 DEF ContextFits, OwnContext
  <1>9. \A g \in Flows \ {w} : Same(g)
    BY <1>1, <1>2 DEF Same, Types
  <1>10. RowsKept
    BY <1>2, RowsUnchanged
  <1> QED  BY <1>1, <1>5, <1>6, <1>7, <1>8, <1>9, <1>10, OneFlow DEF FlowInv

\* FindNothing and Complete.
LEMMA EndPassIInv ==
    ASSUME IInv, NEW w \in Workers, pc[w] \in ActionEnds, EndPass(w),
           serving' \in BOOLEAN, UNCHANGED <<rows, modelRules, provided>>
    PROVE  IInv'
  <1> USE DEF IInv
  <1>1. w \in Flows /\ w \notin Requests /\ w \notin Heartbeats /\ Types /\ FlowInv(w)
    BY WorkerFlows
  <1>2. /\ context' = [context EXCEPT ![w] = EndActorScope(context[w], saved[w].actor)]
        /\ saved' = [saved EXCEPT ![w].actor = NoContext]
        /\ claimed' = [claimed EXCEPT ![w] = NoJob]
        /\ call' = [call EXCEPT ![w] = NoCall]
        /\ found' = [found EXCEPT ![w] = {}]
        /\ pc' = [pc EXCEPT ![w] = "idle"]
    BY DEF EndPass, SetContext, GoTo
  <1>3. context[w] = BeginActorScope(NoContext, WorkerActor) /\ saved[w].actor = NoContext
    BY <1>1 DEF FlowInv, ContextFits, OwnContext, HandlesHoldBase, ActionEnds
  <1>4. EndActorScope(context[w], saved[w].actor) = NoContext
    BY <1>3 DEF EndActorScope, BeginActorScope, NoContext
  <1>5. pc'[w] = "idle" /\ found'[w] = {} /\ context'[w] = NoContext
    BY <1>1, <1>2, <1>4 DEF Types
  <1>6. Types'
    BY <1>1, <1>2 DEF Types
  <1>7. StepIsLegal(w)'
    BY <1>1, <1>5 DEF StepIsLegal, StepsOf, InAction, ActionEnds, Authorized
  <1>8. HandlesHoldBase(w)' /\ ClaimIsStored(w)' /\ FoundIsPermitted(w)'
    BY <1>5 DEF HandlesHoldBase, ClaimIsStored, FoundIsPermitted
  <1>9. ContextFits(w)'
    BY <1>5 DEF ContextFits, OwnContext
  <1>10. \A g \in Flows \ {w} : Same(g)
    BY <1>1, <1>2 DEF Same, Types
  <1>11. RowsKept
    BY RowsUnchanged
  <1> QED  BY <1>1, <1>6, <1>7, <1>8, <1>9, <1>10, <1>11, OneFlow DEF FlowInv

LEMMA BeginHandlerIInv ==
    ASSUME IInv, NEW w \in Workers, BeginHandler(w)
    PROVE  IInv'
  <1> USE DEF IInv
  <1>1. w \in Flows /\ w \notin Requests /\ w \notin Heartbeats /\ Types /\ FlowInv(w)
    BY WorkerFlows
  <1>2. /\ pc[w] = "claimed"
        /\ saved' = [saved EXCEPT ![w]["handler"] = context[w]]
        /\ context' = [context EXCEPT ![w] =
                         BeginScope(context[w], rows[claimed[w]].tenant, "Read")]
        /\ pc' = [pc EXCEPT ![w] = "handling"]
        /\ UNCHANGED <<rows, modelRules, serving, provided, call, found, claimed>>
    BY DEF BeginHandler, Save, SetContext, GoTo
  <1>3. context[w] = Base(w)
    BY <1>1, <1>2 DEF FlowInv, ContextFits, OwnContext, Base
  <1>4. /\ pc'[w] = "handling" /\ saved'[w].handler = Base(w)
        /\ saved'[w].actor = saved[w].actor
        /\ context'[w] = BeginScope(Base(w), rows[claimed[w]].tenant, "Read")
    BY <1>1, <1>2, <1>3 DEF Types
  <1>5. Acting(w)' = Acting(w) /\ Base(w)' = Base(w)
    BY <1>2 DEF Acting, Base
  <1>6. Types'
    BY <1>1, <1>2 DEF Types
  <1>7. StepIsLegal(w)'
    BY <1>1, <1>4 DEF StepIsLegal, StepsOf, InAction, ActionEnds, Authorized
  <1>8. HandlesHoldBase(w)' /\ ClaimIsStored(w)'
    BY <1>1, <1>2, <1>4, <1>5 DEF FlowInv, HandlesHoldBase, ClaimIsStored, Stored
  <1>9. FoundIsPermitted(w)'
    BY <1>1, <1>2, <1>4, <1>5 DEF FlowInv, FoundIsPermitted, Stored
  <1>10. ContextFits(w)'
    BY <1>1, <1>2, <1>4 DEF ContextFits, OwnContext, Base
  <1>11. \A g \in Flows \ {w} : Same(g)
    BY <1>1, <1>2 DEF Same, Types
  <1>12. RowsKept
    BY <1>2, RowsUnchanged
  <1> QED  BY <1>1, <1>6, <1>7, <1>8, <1>9, <1>10, <1>11, <1>12, OneFlow DEF FlowInv

LEMMA EndHandlerIInv ==
    ASSUME IInv, NEW w \in Workers, EndHandler(w)
    PROVE  IInv'
  <1> USE DEF IInv
  <1>1. w \in Flows /\ w \notin Requests /\ w \notin Heartbeats /\ Types /\ FlowInv(w)
    BY WorkerFlows
  <1>2. /\ pc[w] = "handling"
        /\ context' = [context EXCEPT ![w] = EndScope(context[w], saved[w].handler)]
        /\ saved' = [saved EXCEPT ![w].handler = NoContext]
        /\ pc' = [pc EXCEPT ![w] = "stopping"]
        /\ UNCHANGED <<rows, modelRules, serving, provided, call, found, claimed>>
    BY DEF EndHandler, SetContext, GoTo
  <1>3. /\ context[w] = BeginScope(Base(w), rows[claimed[w]].tenant, "Read")
        /\ saved[w].handler = Base(w)
    BY <1>1, <1>2 DEF FlowInv, ContextFits, OwnContext, HandlesHoldBase, Base
  <1>4. EndScope(context[w], saved[w].handler) = Base(w)
    BY <1>1, <1>3, EndScopeRestores
  <1>5. /\ pc'[w] = "stopping" /\ context'[w] = Base(w) /\ saved'[w].actor = saved[w].actor
    BY <1>1, <1>2, <1>4 DEF Types
  <1>6. Acting(w)' = Acting(w) /\ Base(w)' = Base(w)
    BY <1>2 DEF Acting, Base
  <1>7. Types'
    BY <1>1, <1>2 DEF Types
  <1>8. StepIsLegal(w)'
    BY <1>1, <1>5 DEF StepIsLegal, StepsOf, InAction, ActionEnds, Authorized
  <1>9. HandlesHoldBase(w)' /\ ClaimIsStored(w)'
    BY <1>1, <1>2, <1>5 DEF FlowInv, HandlesHoldBase, ClaimIsStored, Stored
  <1>10. FoundIsPermitted(w)'
    BY <1>1, <1>2, <1>5, <1>6 DEF FlowInv, FoundIsPermitted, Stored
  <1>11. ContextFits(w)'
    BY <1>1, <1>5 DEF ContextFits, OwnContext, Base
  <1>12. \A g \in Flows \ {w} : Same(g)
    BY <1>1, <1>2 DEF Same, Types
  <1>13. RowsKept
    BY <1>2, RowsUnchanged
  <1> QED  BY <1>1, <1>7, <1>8, <1>9, <1>10, <1>11, <1>12, <1>13, OneFlow DEF FlowInv

\* Two flows step: a worker loop and its heartbeat.
LEMMA TwoFlows ==
    ASSUME IInv, Types', RowsKept, NEW f \in Flows, NEW h \in Flows, FlowInv(f)', FlowInv(h)',
           \A g \in Flows \ {f, h} : Same(g)
    PROVE  IInv'
  <1>1. \A g \in Flows : FlowInv(g)'
    BY Frame
  <1> QED  BY <1>1 DEF IInv

LEMMA StartHeartbeatIInv ==
    ASSUME IInv, NEW w \in Workers, StartHeartbeat(w)
    PROVE  IInv'
  <1> USE DEF IInv
  <1> DEFINE h == Heartbeat(w)
  <1>1. /\ w \in Flows /\ w \notin Requests /\ w \notin Heartbeats /\ h \in Flows
        /\ h \in Heartbeats /\ h \notin Requests /\ h \notin Workers /\ w # h
        /\ Types /\ FlowInv(w) /\ FlowInv(h)
    BY WorkerFlows
  <1> HIDE DEF h
  <1>2. PICK job \in found[w] : claimed' = [claimed EXCEPT ![w] = job]
    BY DEF StartHeartbeat
  <1>3. /\ pc[w] = "done"
        /\ pc' = [pc EXCEPT ![w] = "claimed", ![h] = "beating"]
        /\ context' = [context EXCEPT ![h] = context[w]]
        /\ provided' = [provided EXCEPT ![h] = provided[w]]
        /\ serving' = TRUE
        /\ UNCHANGED <<rows, modelRules, saved, call, found>>
    BY DEF StartHeartbeat, h
  <1>4. job \in Stored /\ job \in JobIds
    BY <1>1, <1>2 DEF FlowInv, FoundIsPermitted, Stored
  <1>5. context[w] = BeginActorScope(NoContext, WorkerActor)
    BY <1>1, <1>3 DEF FlowInv, ContextFits, OwnContext
  <1>6. /\ pc'[w] = "claimed" /\ pc'[h] = "beating" /\ claimed'[w] = job
        /\ context'[w] = context[w] /\ context'[h] = context[w]
    BY <1>1, <1>2, <1>3 DEF Types
  <1>7. /\ Acting(w)' = Acting(w) /\ Base(w)' = Base(w)
        /\ Acting(h)' = Acting(h) /\ Base(h)' = Base(h)
    BY <1>1 DEF Acting, Base
  <1>8. Types'
    BY <1>1, <1>2, <1>3, <1>4 DEF Types
  <1>9. RowsKept /\ Stored' = Stored
    BY <1>3, RowsUnchanged DEF Stored
  <1>10. FlowInv(w)'
    <2>1. StepIsLegal(w)'
      BY <1>1, <1>6 DEF StepIsLegal, StepsOf, InAction, ActionEnds, Authorized
    <2>2. HandlesHoldBase(w)' /\ ClaimIsStored(w)'
      BY <1>1, <1>3, <1>4, <1>6, <1>9 DEF FlowInv, HandlesHoldBase, ClaimIsStored
    <2>3. FoundIsPermitted(w)'
      BY <1>1, <1>3, <1>6, <1>7, <1>9 DEF FlowInv, FoundIsPermitted
    <2>4. ContextFits(w)'
      BY <1>1, <1>5, <1>6 DEF ContextFits, OwnContext
    <2> QED  BY <2>1, <2>2, <2>3, <2>4 DEF FlowInv
  <1>11. FlowInv(h)'
    <2>1. StepIsLegal(h)'
      BY <1>1, <1>6 DEF StepIsLegal, StepsOf, InAction, ActionEnds, Authorized
    <2>2. HandlesHoldBase(h)' /\ ClaimIsStored(h)'
      BY <1>1, <1>6 DEF HandlesHoldBase, ClaimIsStored
    <2>3. FoundIsPermitted(h)'
      BY <1>1, <1>3, <1>6, <1>7, <1>9 DEF FlowInv, FoundIsPermitted
    <2>4. ContextFits(h)'
      BY <1>1, <1>5, <1>6 DEF ContextFits, OwnContext
    <2> QED  BY <2>1, <2>2, <2>3, <2>4 DEF FlowInv
  <1>12. \A g \in Flows \ {w, h} : Same(g)
    BY <1>1, <1>2, <1>3 DEF Same, Types
  <1> QED  BY <1>1, <1>8, <1>9, <1>10, <1>11, <1>12, TwoFlows

LEMMA StopHeartbeatIInv ==
    ASSUME IInv, NEW w \in Workers, StopHeartbeat(w)
    PROVE  IInv'
  <1> USE DEF IInv
  <1> DEFINE h == Heartbeat(w)
             completion == Call("CompleteJobExecution", claimed[w], NoActor)
  <1>1. /\ w \in Flows /\ w \notin Requests /\ w \notin Heartbeats /\ h \in Flows
        /\ h \in Heartbeats /\ h \notin Requests /\ h \notin Workers /\ w # h
        /\ Types /\ FlowInv(w) /\ FlowInv(h)
    BY WorkerFlows
  <1> HIDE DEF h
  <1>2. /\ pc[w] = "stopping"
        /\ call' = [call EXCEPT ![w] = completion]
        /\ found' = [found EXCEPT ![w] = {}]
        /\ pc' = [pc EXCEPT ![w] = "authorize", ![h] = "idle"]
        /\ UNCHANGED <<rows, modelRules, serving, context, provided, saved, claimed>>
    BY DEF StopHeartbeat, h
  <1>3. /\ pc'[w] = "authorize" /\ pc'[h] = "idle" /\ call'[w] = completion
        /\ call'[h] = call[h] /\ found'[w] = {} /\ found'[h] = found[h]
    BY <1>1, <1>2 DEF Types
  <1>4. completion \in CallType /\ completion.name \in WorkerActions
    BY <1>1 DEF Types, CallType, Call, WorkerActions
  <1>5. Acting(h)' = Acting(h)
    BY <1>1 DEF Acting
  <1>6. Types'
    BY <1>1, <1>2 DEF Types
  <1>7. RowsKept /\ Stored' = Stored
    BY <1>2, RowsUnchanged DEF Stored
  <1>8. FlowInv(w)'
    <2>1. StepIsLegal(w)'
      BY <1>1, <1>3, <1>4 DEF StepIsLegal, StepsOf, InAction, ActionEnds, Authorized, Names
    <2>2. HandlesHoldBase(w)' /\ ClaimIsStored(w)' /\ FoundIsPermitted(w)'
      BY <1>1, <1>2, <1>3 DEF FlowInv, HandlesHoldBase, ClaimIsStored, FoundIsPermitted
    <2>3. ContextFits(w)'
      BY <1>1, <1>2, <1>3 DEF FlowInv, ContextFits, OwnContext
    <2> QED  BY <2>1, <2>2, <2>3 DEF FlowInv
  <1>9. FlowInv(h)'
    <2>1. StepIsLegal(h)'
      BY <1>1, <1>3 DEF StepIsLegal, StepsOf, InAction, ActionEnds, Authorized
    <2>2. HandlesHoldBase(h)' /\ ClaimIsStored(h)' /\ ContextFits(h)'
      BY <1>1, <1>3 DEF HandlesHoldBase, ClaimIsStored, ContextFits
    <2>3. FoundIsPermitted(h)'
      BY <1>1, <1>2, <1>3, <1>5, <1>7 DEF FlowInv, FoundIsPermitted
    <2> QED  BY <2>1, <2>2, <2>3 DEF FlowInv
  <1>10. \A g \in Flows \ {w, h} : Same(g)
    BY <1>1, <1>2 DEF Same, Types
  <1> QED  BY <1>1, <1>6, <1>7, <1>8, <1>9, <1>10, TwoFlows

LEMMA BeatIInv ==
    ASSUME IInv, NEW w \in Workers, Beat(w) \/ Beaten(w)
    PROVE  IInv'
  <1> USE DEF IInv
  <1> DEFINE h == Heartbeat(w)
             renewal == Call("RenewJobLease", claimed[w], NoActor)
  <1>1. /\ h \in Flows /\ h \in Heartbeats /\ h \notin Requests /\ h \notin Workers
        /\ Types /\ FlowInv(h)
    BY WorkerFlows
  <1>2. /\ \/ Beat(w) /\ call'[h] = renewal /\ pc'[h] = "authorize"
           \/ Beaten(w) /\ pc'[h] \in {"beating", "stopped"}
        /\ pc' = [pc EXCEPT ![h] = pc'[h]]
        /\ call' = [call EXCEPT ![h] = call'[h]]
        /\ found' = [found EXCEPT ![h] = {}]
        /\ UNCHANGED <<rows, modelRules, serving, context, provided, saved, claimed>>
    BY <1>1 DEF Beat, Beaten, Execute, GoTo, Types
  <1>3. pc[h] \in ActionEnds \cup {"beating"}
    BY DEF Beat, Beaten
  <1> HIDE DEF h
  <1>4. found'[h] = {} /\ context'[h] = context[h]
    BY <1>1, <1>2 DEF Types
  <1>5. context[h] = BeginActorScope(NoContext, WorkerActor)
    BY <1>1, <1>3 DEF FlowInv, ContextFits, OwnContext, ActionEnds
  <1>6. renewal \in CallType /\ renewal.name \in WorkerActions
    BY <1>1 DEF Types, CallType, Call, WorkerActions
  <1>7. pc'[h] \in {"authorize", "beating", "stopped"}
    BY <1>2
  <1>8. Types'
    BY <1>1, <1>2 DEF Types
  <1>9. StepIsLegal(h)'
    BY <1>1, <1>2, <1>6 DEF StepIsLegal, StepsOf, InAction, ActionEnds, Authorized, Names
  <1>10. HandlesHoldBase(h)' /\ ClaimIsStored(h)' /\ FoundIsPermitted(h)'
    BY <1>1, <1>4, <1>7 DEF HandlesHoldBase, ClaimIsStored, FoundIsPermitted
  <1>11. ContextFits(h)'
    BY <1>1, <1>4, <1>5, <1>7 DEF ContextFits, OwnContext
  <1>12. \A g \in Flows \ {h} : Same(g)
    BY <1>1, <1>2 DEF Same, Types
  <1>13. RowsKept
    BY <1>2, RowsUnchanged
  <1> QED  BY <1>1, <1>8, <1>9, <1>10, <1>11, <1>12, <1>13, OneFlow DEF FlowInv

-----------------------------------------------------------------------------
LEMMA StepIInv == IInv /\ [Next]_vars => IInv'
  <1> SUFFICES ASSUME IInv, [Next]_vars PROVE IInv'
    OBVIOUS
  <1>1. CASE UNCHANGED vars
    <2>1. Types' /\ RowsKept
      BY <1>1, RowsUnchanged DEF vars, IInv, Types
    <2>2. \A g \in Flows : Same(g)
      BY <1>1 DEF vars, Same
    <2>3. \A g \in Flows : FlowInv(g)'
      BY <2>1, <2>2, Frame
    <2> QED  BY <2>1, <2>3 DEF IInv
  <1>2. ASSUME NEW f \in Flows, ActionStep(f) PROVE IInv'
    BY <1>2, AuthorizeIInv, OpenScopeIInv, StatementIInv, NoStatementIInv, CloseScopeIInv
       DEF ActionStep
  <1>3. ASSUME NEW f \in Requests, Receive(f) \/ Respond(f) PROVE IInv'
    BY <1>3, ReceiveIInv, RespondIInv
  <1>4. ASSUME NEW w \in Workers, FindNothing(w) \/ Complete(w) PROVE IInv'
    <2>1. /\ pc[w] \in ActionEnds /\ EndPass(w) /\ UNCHANGED <<rows, modelRules, provided>>
          /\ serving' = TRUE \/ serving' = serving
      BY <1>4 DEF FindNothing, Complete
    <2>2. serving' \in BOOLEAN
      BY <2>1 DEF IInv, Types
    <2> QED  BY <2>1, <2>2, EndPassIInv
  <1>5. ASSUME NEW w \in Workers,
               \/ BeginPass(w) \/ StartHeartbeat(w) \/ BeginHandler(w) \/ EndHandler(w)
               \/ StopHeartbeat(w) \/ Beat(w) \/ Beaten(w)
        PROVE  IInv'
    BY <1>5, BeginPassIInv, StartHeartbeatIInv, BeginHandlerIInv, EndHandlerIInv,
       StopHeartbeatIInv, BeatIInv
  <1> QED  BY <1>1, <1>2, <1>3, <1>4, <1>5 DEF Next

LEMMA AlwaysIInv == Spec => []IInv
  BY InitIInv, StepIInv, PTL DEF Spec

\* For any tenants, actors and jobs and any number of requests and worker loops: a flow
\* has the AsyncLocal values its own open handles say, and no others, when actions throw
\* and heartbeats run in copies of their workers' context (DataAccessScopeProvider).
THEOREM ContextsStayApart == Spec => []ContextIsOwn
  <1>1. IInv => ContextIsOwn
    BY DEF IInv, FlowInv, ContextFits, ContextIsOwn
  <1> QED  BY <1>1, AlwaysIInv, PTL

\* No action asks the provider for a scope that it refuses: what authorized the action
\* allows its scope (BuildAuthorizationRules against BuildDataAccessScope).
THEOREM ScopesAreGranted == Spec => []NoScopeRefused
  <1>1. IInv => NoScopeRefused
    BY DEF IInv, FlowInv, StepIsLegal, NoScopeRefused
  <1> QED  BY <1>1, AlwaysIInv, PTL

\* The rows a statement returns or changes are ones its actor has a claim to, whichever
\* statement of the process built the query filter (DataAccessPolicy.BuildFilter).
THEOREM OnlyPermittedRowsAreTouched == Spec => []TouchesOnlyPermitted
  <1>1. IInv => TouchesOnlyPermitted
    BY DEF IInv, FlowInv, FoundIsPermitted, Permitted, TouchesOnlyPermitted
  <1> QED  BY <1>1, AlwaysIInv, PTL

-----------------------------------------------------------------------------
(* What a list contains. *)

\* The statement of an action, when it does not throw.
LEMMA StatementStep ==
    ASSUME IInv, [Next]_vars, NEW f \in Flows, Statements(f)
    PROVE  Statement(f) \/ Reject(f)
  <1>1. pc[f] = "statement" /\ pc'[f] = "close" /\ ~call'[f].threw /\ pc # pc'
    BY DEF Statements
  <1>2. DOMAIN pc = Flows /\ DOMAIN call = Flows
    BY DEF IInv, Types
  <1>3. ASSUME NEW g \in Flows, ActionStep(g) PROVE Statement(f) \/ Reject(f)
    <2>1. \E step : GoTo(g, step)
      BY <1>3 DEF ActionStep, Authorize, OpenScope, Statement, Reject, StatementThrows,
                  CloseScope
    <2>2. g = f
      BY <1>1, <1>2, <2>1 DEF GoTo
    <2>3. ~StatementThrows(f)
      <3>1. SUFFICES ASSUME StatementThrows(f) PROVE call'[f].threw
        BY <1>1
      <3>2. call[f] \in CallType
        BY <1>1 DEF IInv, FlowInv, StepIsLegal, InAction
      <3> QED  BY <1>2, <3>1, <3>2 DEF StatementThrows, CallType
    <2> QED  BY <1>1, <1>3, <2>2, <2>3 DEF ActionStep, Authorize, OpenScope, CloseScope
  <1>4. ASSUME NEW g \in Flows, NEW step, GoTo(g, step), step # "close" PROVE FALSE
    BY <1>1, <1>2, <1>4 DEF GoTo
  <1>5. ~(\E g \in Requests : Receive(g) \/ Respond(g))
    BY <1>4 DEF Receive, Respond, Execute, Flows
  <1>6. ASSUME NEW w \in Workers
        PROVE  ~(\/ BeginPass(w) \/ FindNothing(w) \/ BeginHandler(w) \/ EndHandler(w)
                 \/ Complete(w) \/ Beat(w))
    BY <1>4 DEF BeginPass, FindNothing, BeginHandler, EndHandler, Complete, Beat, EndPass,
                Execute, Flows, Heartbeats
  <1>7. ASSUME NEW w \in Workers PROVE ~Beaten(w)
    <2>1. Heartbeat(w) \in Flows
      BY DEF Flows, Heartbeats
    <2>2. Beaten(w) => GoTo(Heartbeat(w), "beating") \/ GoTo(Heartbeat(w), "stopped")
      BY DEF Beaten
    <2> QED  BY <1>4, <2>1, <2>2
  <1>8. ASSUME NEW w \in Workers PROVE ~(StartHeartbeat(w) \/ StopHeartbeat(w))
    BY <1>1, <1>2 DEF StartHeartbeat, StopHeartbeat
  <1> QED  BY <1>1, <1>3, <1>5, <1>6, <1>7, <1>8 DEF Next, vars

LEMMA OwnRowsAreVisible ==
    ASSUME IInv, NEW f \in Flows, pc[f] = "statement", NEW j \in Stored,
           rows[j].owner = Acting(f).id, rows[j].tenant = Acting(f).tenant
    PROVE  j \in Visible(f)
  <1> DEFINE scope == ScopeOf(call[f].name, Acting(f))
  <1>1. RulesInForce(f) \in Operations /\ InBoundary(scope, rows[j])
    BY FilterInForce DEF InBoundary
  <1>2. "Owner" \in GrantRules(RulesInForce(f)) /\ Granted("Owner", Acting(f), rows[j])
    BY <1>1 DEF GrantRules, Granted, Operations
  <1> QED  BY <1>1, <1>2, FilterInForce DEF Filter

\* For any tenants, actors and concurrent requests: whichever operation the query filter
\* was built for, a list contains the jobs that the actor enqueued in its tenant
\* (ListJobsAction.cs; DataAccessPolicy.BuildFilter).
THEOREM OwnersFindTheirJobs == Spec => OwnJobsAreListed
  <1> DEFINE Listed(f) ==
          Statements(f) /\ call[f].name = "ListJobs" =>
              {j \in Stored : /\ rows[j].owner = call[f].actor.id
                              /\ rows[j].tenant = call[f].actor.tenant} \subseteq found'[f]
  <1>1. ASSUME IInv, [Next]_vars, NEW f \in Requests, Statements(f), call[f].name = "ListJobs"
        PROVE  {j \in Stored : /\ rows[j].owner = call[f].actor.id
                               /\ rows[j].tenant = call[f].actor.tenant} \subseteq found'[f]
    <2>1. f \in Flows /\ pc[f] = "statement"
      BY <1>1 DEF Flows, Statements
    <2>2. Statement(f)
      BY <1>1, <2>1, StatementStep DEF Reject
    <2>3. call[f].actor = Acting(f)
      BY <1>1, <2>1 DEF IInv, FlowInv, StepIsLegal, Authorized
    <2>4. found'[f] = Visible(f)
      BY <1>1, <2>1, <2>2 DEF Statement, Performs, IInv, Types
    <2> QED  BY <1>1, <2>1, <2>3, <2>4, OwnRowsAreVisible
  <1>2. IInv /\ [Next]_vars => [\A f \in Requests : Listed(f)]_vars
    BY <1>1
  <1> QED  BY <1>2, AlwaysIInv, PTL DEF Spec, OwnJobsAreListed

-----------------------------------------------------------------------------
(* What a worker loop holds: the rows its claim has found, then the job it took    *)
(* from them, until the statement that completes it.                            *)

Holding == {"claimed", "handling", "stopping"}

Held(w) ==
    IF call[w].name = "ClaimNextDueJob" /\ pc[w] \in {"close", "done"} THEN found[w]
    ELSE IF \/ pc[w] \in Holding
            \/ /\ call[w].name = "CompleteJobExecution"
               /\ pc[w] \in {"authorize", "scope", "statement"}
    THEN {claimed[w]} ELSE {}

\* A loop asks for a claim or for the completion of what it has; its heartbeat beats
\* while it has a job, for that job.
LoopInv(w) ==
    LET h == Heartbeat(w) IN
    /\ pc[w] = "idle" => claimed[w] = NoJob
    /\ pc[w] \in InAction =>
         \/ call[w].name = "ClaimNextDueJob" /\ claimed[w] = NoJob
         \/ call[w].name = "CompleteJobExecution" /\ call[w].job = claimed[w]
    /\ call[w].name = "ClaimNextDueJob" /\ pc[w] \in {"authorize", "scope", "statement"}
         => found[w] = {}
    /\ pc[h] # "idle" => pc[w] \in Holding
    /\ pc[h] \in InAction => call[h].name = "RenewJobLease" /\ call[h].job = claimed[w]

\* A held job is running, and the workers' actor sees it through the filter, which was
\* built when the job was claimed at the latest and is not built again.
Reachable(j) ==
    /\ j \in Stored /\ rows[j].status = "running" /\ modelRules # NoOperation
    /\ Filter(modelRules, WorkerActor, AllTenants, rows[j])

HoldInv ==
    /\ \A w \in Workers : LoopInv(w)
    /\ \A w \in Workers : \A j \in Held(w) : Reachable(j)
    /\ \A v, w \in Workers : v # w => Held(v) \cap Held(w) = {}

RulesKept == modelRules # NoOperation => modelRules' = modelRules

LEMMA FlowsApart ==
    ASSUME NEW w \in Workers
    PROVE  /\ w \in Flows /\ Heartbeat(w) \in Flows /\ w # Heartbeat(w)
           /\ w \notin Requests /\ Heartbeat(w) \notin Requests \cup Workers
           /\ \A v \in Workers \ {w} : v # Heartbeat(w) /\ Heartbeat(v) # Heartbeat(w)
                                        /\ Heartbeat(v) # w
  BY FlowsAssumption DEF Flows, Heartbeats, Heartbeat

LEMMA InitHoldInv == Init => HoldInv
  <1> SUFFICES ASSUME Init PROVE HoldInv
    OBVIOUS
  <1>1. ASSUME NEW w \in Workers PROVE LoopInv(w) /\ Held(w) = {}
    <2>1. /\ pc[w] = "idle" /\ pc[Heartbeat(w)] = "idle" /\ claimed[w] = NoJob
      BY FlowsApart DEF Init
    <2> QED  BY <2>1 DEF LoopInv, Held, Holding, InAction, ActionEnds
  <1> QED  BY <1>1 DEF HoldInv

\* A loop keeps what it has when neither it nor its heartbeat steps.
LEMMA OtherLoops ==
    ASSUME NEW w \in Workers, LoopInv(w), Same(w), Same(Heartbeat(w))
    PROVE  LoopInv(w)' /\ Held(w)' = Held(w)
  BY DEF LoopInv, Held, Same

\* A step that leaves the rows alone and gives no loop anything new.
LEMMA NothingTaken ==
    ASSUME HoldInv, UNCHANGED rows, RulesKept,
           \A w \in Workers : LoopInv(w)' /\ Held(w)' \subseteq Held(w)
    PROVE  HoldInv'
  <1>1. ASSUME NEW w \in Workers, NEW j \in Held(w)' PROVE Reachable(j)'
    <2>1. Reachable(j) /\ modelRules' = modelRules
      BY <1>1 DEF HoldInv, Reachable, RulesKept
    <2> QED  BY <2>1 DEF Reachable, Stored
  <1>2. ASSUME NEW v \in Workers, NEW w \in Workers, v # w
        PROVE  Held(v)' \cap Held(w)' = {}
    BY <1>2 DEF HoldInv
  <1> QED  BY <1>1, <1>2 DEF HoldInv

LEMMA OneLoop ==
    ASSUME HoldInv, UNCHANGED rows, RulesKept, NEW w \in Workers,
           \A g \in Flows \ {w, Heartbeat(w)} : Same(g),
           LoopInv(w)', Held(w)' \subseteq Held(w)
    PROVE  HoldInv'
  <1>1. ASSUME NEW v \in Workers \ {w} PROVE LoopInv(v)' /\ Held(v)' = Held(v)
    BY FlowsApart, OtherLoops DEF HoldInv
  <1>2. \A v \in Workers : LoopInv(v)' /\ Held(v)' \subseteq Held(v)
    BY <1>1
  <1> QED  BY <1>2, NothingTaken

-----------------------------------------------------------------------------
(* The steps of a loop and of its heartbeat between their actions. *)

LEMMA PassHoldInv ==
    ASSUME IInv, HoldInv, NEW w \in Workers, BeginPass(w) \/ FindNothing(w) \/ Complete(w)
    PROVE  HoldInv'
  <1>1. Types /\ LoopInv(w) /\ w \in Flows /\ Heartbeat(w) \in Flows /\ Heartbeat(w) # w
    BY FlowsApart DEF IInv, HoldInv
  <1>2. \A g \in Flows \ {w} : Same(g)
    BY <1>1 DEF BeginPass, FindNothing, Complete, EndPass, Execute, GoTo, SetContext, Save,
                Same, Types
  <1>3. UNCHANGED rows /\ RulesKept
    BY DEF BeginPass, FindNothing, Complete, RulesKept
  <1>4. pc[Heartbeat(w)] = "idle" /\ pc'[Heartbeat(w)] = "idle"
    <2>1. pc[w] \notin Holding
      BY DEF BeginPass, FindNothing, Complete, ActionEnds, Holding
    <2> QED  BY <1>1, <1>2, <2>1 DEF LoopInv, Same
  <1>5. CASE BeginPass(w)
    <2>1. /\ pc'[w] = "authorize" /\ found'[w] = {} /\ claimed'[w] = NoJob
          /\ call'[w].name = "ClaimNextDueJob"
      BY <1>1, <1>5 DEF BeginPass, Execute, GoTo, Call, LoopInv, Types
    <2>2. LoopInv(w)' /\ Held(w)' = {}
      BY <1>4, <2>1 DEF LoopInv, Held, Holding, InAction, ActionEnds
    <2> QED  BY <1>2, <1>3, <2>2, OneLoop
  <1>6. CASE FindNothing(w) \/ Complete(w)
    <2>1. pc'[w] = "idle" /\ claimed'[w] = NoJob
      BY <1>1, <1>6 DEF FindNothing, Complete, EndPass, GoTo, Types
    <2>2. LoopInv(w)' /\ Held(w)' = {}
      BY <1>4, <2>1 DEF LoopInv, Held, Holding, InAction, ActionEnds
    <2> QED  BY <1>2, <1>3, <2>2, OneLoop
  <1> QED  BY <1>5, <1>6

LEMMA HandlingHoldInv ==
    ASSUME IInv, HoldInv, NEW w \in Workers,
           StartHeartbeat(w) \/ BeginHandler(w) \/ EndHandler(w) \/ StopHeartbeat(w)
    PROVE  HoldInv'
  <1>1. Types /\ LoopInv(w) /\ w \in Flows /\ Heartbeat(w) \in Flows /\ Heartbeat(w) # w
    BY FlowsApart DEF IInv, HoldInv
  <1>2. \A g \in Flows \ {w, Heartbeat(w)} : Same(g)
    BY <1>1 DEF StartHeartbeat, BeginHandler, EndHandler, StopHeartbeat, GoTo, SetContext,
                Save, Same, Types
  <1>3. UNCHANGED rows /\ RulesKept
    BY DEF StartHeartbeat, BeginHandler, EndHandler, StopHeartbeat, RulesKept
  <1>4. CASE StartHeartbeat(w)
    <2>1. /\ pc[w] = "done" /\ call[w].name = "ClaimNextDueJob"
          /\ pc'[w] = "claimed" /\ pc'[Heartbeat(w)] = "beating"
          /\ claimed'[w] \in found[w]
      BY <1>1, <1>4 DEF StartHeartbeat, Types
    <2>2. LoopInv(w)' /\ Held(w)' = {claimed'[w]}
      BY <2>1 DEF LoopInv, Held, Holding, InAction, ActionEnds
    <2>3. Held(w) = found[w]
      BY <2>1 DEF Held
    <2> QED  BY <1>2, <1>3, <2>1, <2>2, <2>3, OneLoop
  <1>5. CASE BeginHandler(w) \/ EndHandler(w)
    <2>1. /\ pc[w] \in Holding /\ pc'[w] \in Holding /\ pc'[Heartbeat(w)] = pc[Heartbeat(w)]
          /\ call' = call /\ claimed' = claimed
      BY <1>1, <1>5 DEF BeginHandler, EndHandler, GoTo, Holding, Types
    <2>2. LoopInv(w)' /\ Held(w)' = Held(w)
      BY <1>1, <2>1 DEF LoopInv, Held, Holding, InAction, ActionEnds
    <2> QED  BY <1>2, <1>3, <2>2, OneLoop
  <1>6. CASE StopHeartbeat(w)
    <2>1. /\ pc[w] = "stopping" /\ pc'[w] = "authorize" /\ pc'[Heartbeat(w)] = "idle"
          /\ call'[w].name = "CompleteJobExecution" /\ call'[w].job = claimed[w]
          /\ claimed' = claimed
      BY <1>1, <1>6 DEF StopHeartbeat, Call, Types
    <2>2. LoopInv(w)' /\ Held(w)' = Held(w)
      BY <2>1 DEF LoopInv, Held, Holding, InAction, ActionEnds
    <2> QED  BY <1>2, <1>3, <2>2, OneLoop
  <1> QED  BY <1>4, <1>5, <1>6

LEMMA BeatHoldInv ==
    ASSUME IInv, HoldInv, NEW w \in Workers, Beat(w) \/ Beaten(w)
    PROVE  HoldInv'
  <1> DEFINE h == Heartbeat(w)
  <1>1. Types /\ LoopInv(w) /\ w \in Flows /\ h \in Flows /\ h # w
    BY FlowsApart DEF IInv, HoldInv
  <1>2. \A g \in Flows \ {h} : Same(g)
    BY <1>1 DEF Beat, Beaten, Execute, GoTo, Same, Types
  <1>3. UNCHANGED rows /\ RulesKept
    BY DEF Beat, Beaten, RulesKept
  <1>4. pc[h] # "idle"
    BY DEF Beat, Beaten, ActionEnds
  <1>5. \/ /\ pc'[h] = "authorize" /\ call'[h].name = "RenewJobLease"
           /\ call'[h].job = claimed[w]
        \/ pc'[h] \in {"beating", "stopped"}
    BY <1>1 DEF Beat, Beaten, Execute, GoTo, Call, Types
  <1>6. LoopInv(w)' /\ Held(w)' = Held(w)
    <2>1. Same(w)
      BY <1>1, <1>2
    <2> QED  BY <1>1, <1>4, <1>5, <2>1 DEF LoopInv, Held, Same, InAction, ActionEnds
  <1> QED  BY <1>2, <1>3, <1>6, OneLoop

-----------------------------------------------------------------------------
(* The steps of an action. *)

\* An action goes one step on, without its statement having an effect.
GoesOn(f) ==
    /\ \E step : /\ pc' = [pc EXCEPT ![f] = step]
                 /\ \/ pc[f] = "authorize" /\ step \in {"scope", "denied"}
                    \/ pc[f] = "scope" /\ step \in {"statement", "refused"}
                    \/ pc[f] = "statement" /\ step = "close"
                    \/ pc[f] = "close" /\ step = "done"
    /\ call'[f].name = call[f].name /\ call'[f].job = call[f].job
    /\ UNCHANGED <<rows, found, claimed>>

LEMMA ActionGoesOn ==
    ASSUME IInv, NEW f \in Flows,
           Authorize(f) \/ OpenScope(f) \/ Reject(f) \/ StatementThrows(f) \/ CloseScope(f)
    PROVE  GoesOn(f) /\ RulesKept /\ \A g \in Flows \ {f} : Same(g)
  <1>1. Types /\ pc[f] \in InAction /\ call[f] \in CallType
    BY DEF IInv, FlowInv, StepIsLegal, Authorize, OpenScope, Reject, StatementThrows,
           CloseScope, InAction
  <1>2. \A g \in Flows \ {f} : Same(g)
    BY <1>1 DEF Authorize, OpenScope, Reject, StatementThrows, CloseScope, GoTo, SetContext,
                Save, Same, Types
  <1>3. RulesKept
    BY DEF Authorize, OpenScope, Reject, StatementThrows, CloseScope, RulesInForce, RulesKept
  <1>4. CASE Authorize(f)
    <2>1. call'[f] = [call[f] EXCEPT !.actor = CurrentActor(context[f], provided[f])]
      BY <1>1, <1>4 DEF Authorize, Types
    <2>2. call'[f].name = call[f].name /\ call'[f].job = call[f].job
      BY <1>1, <2>1 DEF CallType
    <2> QED  BY <1>2, <1>3, <1>4, <2>2 DEF Authorize, GoesOn, GoTo
  <1>5. CASE StatementThrows(f)
    <2>1. call'[f] = [call[f] EXCEPT !.threw = TRUE]
      BY <1>1, <1>5 DEF StatementThrows, Types
    <2>2. call'[f].name = call[f].name /\ call'[f].job = call[f].job
      BY <1>1, <2>1 DEF CallType
    <2> QED  BY <1>2, <1>3, <1>5, <2>2 DEF StatementThrows, GoesOn, GoTo
  <1>6. CASE OpenScope(f) \/ Reject(f) \/ CloseScope(f)
    BY <1>2, <1>3, <1>6 DEF OpenScope, Reject, CloseScope, GoesOn, GoTo
  <1> QED  BY <1>4, <1>5, <1>6

\* The flow of a loop, of a heartbeat, or of neither.
LEMMA WhoseFlow ==
    ASSUME NEW f \in Flows
    PROVE  \/ f \in Requests
           \/ f \in Workers
           \/ \E w \in Workers : f = Heartbeat(w)
  BY DEF Flows, Heartbeats

LEMMA RequestHoldInv ==
    ASSUME HoldInv, UNCHANGED rows, RulesKept, NEW f \in Requests,
           \A g \in Flows \ {f} : Same(g)
    PROVE  HoldInv'
  <1>1. \A w \in Workers : LoopInv(w)' /\ Held(w)' = Held(w)
    BY FlowsApart, OtherLoops DEF HoldInv
  <1> QED  BY <1>1, NothingTaken

LEMMA GoesOnHoldInv ==
    ASSUME IInv, HoldInv, NEW f \in Flows, GoesOn(f), RulesKept,
           \A g \in Flows \ {f} : Same(g)
    PROVE  HoldInv'
  <1>1. Types /\ UNCHANGED rows
    BY DEF IInv, GoesOn
  <1>2. PICK step : /\ pc'[f] = step
                    /\ \/ pc[f] = "authorize" /\ step \in {"scope", "denied"}
                       \/ pc[f] = "scope" /\ step \in {"statement", "refused"}
                       \/ pc[f] = "statement" /\ step = "close"
                       \/ pc[f] = "close" /\ step = "done"
    BY <1>1 DEF GoesOn, Types
  <1>3. CASE f \in Requests
    BY <1>1, <1>3, RequestHoldInv
  <1>4. CASE f \in Workers
    <2>1. LoopInv(f) /\ Same(Heartbeat(f)) /\ pc[Heartbeat(f)] = "idle"
      BY <1>2, <1>4, FlowsApart DEF HoldInv, LoopInv, Holding
    <2>2. LoopInv(f)'
      BY <1>2, <2>1 DEF LoopInv, GoesOn, Same, InAction, ActionEnds, Holding
    <2>3. Held(f)' \subseteq Held(f)
      BY <1>2, <2>1 DEF LoopInv, Held, GoesOn, Holding, InAction, ActionEnds
    <2> QED  BY <1>1, <1>4, <2>2, <2>3, OneLoop
  <1>5. ASSUME NEW w \in Workers, f = Heartbeat(w) PROVE HoldInv'
    <2>1. LoopInv(w) /\ Same(w)
      BY <1>5, FlowsApart DEF HoldInv
    <2>2. LoopInv(w)' /\ Held(w)' = Held(w)
      BY <1>2, <1>5, <2>1 DEF LoopInv, Held, GoesOn, Same, InAction, ActionEnds
    <2> QED  BY <1>1, <1>5, <2>2, OneLoop
  <1> QED  BY <1>3, <1>4, <1>5, WhoseFlow

\* The statement of a request or of a heartbeat: what runs is left alone.
LEMMA OtherStatementHoldInv ==
    ASSUME IInv, HoldInv, NEW f \in Flows \ Workers, Statement(f)
    PROVE  HoldInv'
  <1>1. /\ Types /\ pc[f] = "statement" /\ pc'[f] = "close"
        /\ call[f].name \in Names(f) /\ UNCHANGED <<call, claimed>>
    BY DEF IInv, FlowInv, StepIsLegal, Statement, GoTo, Types, InAction
  <1>2. \A g \in Flows \ {f} : Same(g)
    <2>1. found' = [found EXCEPT ![f] = found'[f]]
      BY PerformsFacts DEF Statement
    <2> QED  BY <1>1, <2>1 DEF Statement, GoTo, Same, Types
  <1>3. RulesKept
    BY DEF Statement, RulesInForce, RulesKept
  <1>4. ASSUME NEW w \in Workers PROVE LoopInv(w)' /\ Held(w)' = Held(w)
    <2>1. LoopInv(w) /\ w \in Flows /\ w # f /\ Same(w)
      BY <1>2, <1>4, FlowsApart DEF HoldInv
    <2>2. CASE f = Heartbeat(w)
      BY <1>1, <2>1, <2>2 DEF LoopInv, Held, Same, InAction, ActionEnds
    <2>3. CASE f # Heartbeat(w)
      BY <1>2, <2>1, <2>3, OtherLoops, FlowsApart
    <2> QED  BY <2>2, <2>3
  <1>5. ASSUME NEW w \in Workers, NEW j \in Held(w) PROVE rows'[j] = rows[j] /\ j \in JobIds
    <2>1. j \in Stored /\ j \in JobIds
      BY <1>5 DEF HoldInv, Reachable, Stored
    <2>2. CASE f \in Requests
      <3>1. CASE call[f].name = "EnqueueJob"
        <4>1. \E new \in JobIds \ Stored :
                rows' = [rows EXCEPT ![new] = Row(call[f].actor.tenant, call[f].actor.id, "queued")]
          BY <3>1 DEF Statement, Performs
        <4> QED  BY <2>1, <4>1
      <3>2. CASE call[f].name # "EnqueueJob"
        <4>1. UNCHANGED rows
          BY <1>1, <2>2, <3>2 DEF Statement, Performs, Names, RequestActions
        <4> QED  BY <2>1, <4>1
      <3> QED  BY <3>1, <3>2
    <2>3. CASE f \notin Requests
      <3>1. call[f].name = "RenewJobLease"
        BY <1>1, <2>3, WhoseFlow DEF HoldInv, LoopInv, InAction
      <3> QED  BY <2>1, <3>1 DEF Statement, Performs
    <2> QED  BY <2>2, <2>3
  <1>6. ASSUME NEW w \in Workers, NEW j \in Held(w) PROVE Reachable(j)'
    <2>1. Reachable(j) /\ modelRules' = modelRules /\ rows'[j] = rows[j] /\ j \in JobIds
      BY <1>3, <1>5, <1>6 DEF HoldInv, Reachable, RulesKept
    <2> QED  BY <2>1 DEF Reachable, Stored
  <1> QED  BY <1>4, <1>6 DEF HoldInv

LEMMA WorkerFilter ==
    ASSUME IInv, NEW w \in Workers, pc[w] = "statement"
    PROVE  /\ Visible(w) = {j \in Stored : Filter(RulesInForce(w), WorkerActor, AllTenants, rows[j])}
           /\ RulesInForce(w) # NoOperation
  <1>1. w \in Flows /\ w \notin Requests
    BY FlowsApart
  <1>2. Acting(w) = WorkerActor /\ call[w].name \in WorkerActions
    BY <1>1 DEF Acting, IInv, FlowInv, StepIsLegal, InAction, Names
  <1>3. ScopeOf(call[w].name, Acting(w)) = AllTenants
    BY <1>2 DEF ScopeOf
  <1>4. RulesInForce(w) \in Operations
    BY <1>1, FilterInForce
  <1>5. NoOperation \notin Operations
    BY DEF Operations, NoOperation
  <1> QED  BY <1>1, <1>2, <1>3, <1>4, <1>5, FilterInForce

\* The statement of a worker loop writes one row, queued or its own.
LEMMA LoopStatementHoldInv ==
    ASSUME IInv, HoldInv, NEW w \in Workers, Statement(w)
    PROVE  HoldInv'
  <1>1. /\ Types /\ w \in Flows /\ pc[w] = "statement" /\ pc'[w] = "close" /\ LoopInv(w)
        /\ UNCHANGED <<call, claimed>> /\ modelRules' = RulesInForce(w)
    BY FlowsApart DEF IInv, HoldInv, Statement, GoTo, Types
  <1>2. \A g \in Flows \ {w} : Same(g)
    <2>1. found' = [found EXCEPT ![w] = found'[w]]
      BY <1>1, PerformsFacts DEF Statement
    <2> QED  BY <1>1, <2>1 DEF Statement, GoTo, Same, Types
  <1>3. RulesKept /\ modelRules' # NoOperation
    BY <1>1, WorkerFilter DEF RulesInForce, RulesKept
  <1>4. pc[Heartbeat(w)] = "idle" /\ pc'[Heartbeat(w)] = "idle"
    BY <1>1, <1>2, FlowsApart DEF LoopInv, Same, Holding
  <1>5. LoopInv(w)'
    BY <1>1, <1>4 DEF LoopInv, InAction, ActionEnds, Holding
  <1>6. ASSUME NEW v \in Workers \ {w} PROVE LoopInv(v)' /\ Held(v)' = Held(v)
    BY <1>2, FlowsApart, OtherLoops DEF HoldInv
  <1>7. ASSUME NEW v \in Workers \ {w}, NEW j \in Held(v), rows'[j] = rows[j]
        PROVE  Reachable(j)'
    <2>1. Reachable(j) /\ modelRules' = modelRules /\ j \in JobIds
      BY <1>3, <1>7 DEF HoldInv, Reachable, RulesKept, Stored
    <2> QED  BY <1>7, <2>1 DEF Reachable, Stored
  <1>8. CASE call[w].name = "ClaimNextDueJob"
    <2>1. Held(w)' = found'[w] /\ found[w] = {}
      BY <1>1, <1>8 DEF Held, LoopInv
    <2>2. CASE UNCHANGED <<rows, found>>
      <3>1. Held(w)' = {} /\ \A v \in Workers \ {w} : \A j \in Held(v)' : Reachable(j)'
        BY <1>6, <1>7, <2>1, <2>2
      <3> QED  BY <1>5, <1>6, <3>1 DEF HoldInv
    <2>3. ASSUME NEW j \in Visible(w), rows[j].status = "queued", SetStatus(j, "running"),
                 found' = [found EXCEPT ![w] = {j}]
          PROVE  HoldInv'
      <3>1. /\ j \in Stored /\ j \in JobIds /\ rows[j] \in RowType
            /\ Filter(modelRules', WorkerActor, AllTenants, rows[j])
        BY <1>1, WorkerFilter, StoredRows DEF Stored
      <3>2. /\ rows'[j] \in RowType /\ rows'[j].status = "running"
            /\ rows'[j].tenant = rows[j].tenant /\ rows'[j].owner = rows[j].owner
            /\ \A k \in JobIds \ {j} : rows'[k] = rows[k]
        BY <1>1, <2>3, <3>1 DEF SetStatus, Types, RowType
      <3>3. Reachable(j)'
        <4>1. j \in Stored'
          BY <3>1, <3>2, RowIsThere DEF Stored
        <4>2. Filter(modelRules', WorkerActor, AllTenants, rows'[j])
          BY <3>1, <3>2 DEF Filter, InBoundary, Granted
        <4> QED  BY <1>3, <3>2, <4>1, <4>2 DEF Reachable
      <3>4. Held(w)' = {j}
        BY <1>1, <2>1, <2>3 DEF Types
      <3>5. ASSUME NEW v \in Workers \ {w}, NEW k \in Held(v) PROVE k # j /\ Reachable(k)'
        <4>1. k \in JobIds /\ rows[k].status = "running"
          BY <3>5 DEF HoldInv, Reachable, Stored
        <4> QED  BY <1>7, <2>3, <3>2, <3>5, <4>1
      <3> QED  BY <1>5, <1>6, <3>3, <3>4, <3>5 DEF HoldInv
    <2> QED  BY <1>1, <1>8, <2>2, <2>3 DEF Statement, Performs
  <1>9. CASE call[w].name = "CompleteJobExecution"
    <2>1. Held(w) = {claimed[w]} /\ Held(w)' = {}
      BY <1>1, <1>9 DEF Held, Holding
    <2>2. call[w].job = claimed[w]
      BY <1>1, <1>9 DEF LoopInv, InAction
    <2>3. UNCHANGED rows \/ \E status : SetStatus(claimed[w], status)
      BY <1>9, <2>2 DEF Statement, Performs
    <2>4. ASSUME NEW v \in Workers \ {w}, NEW k \in Held(v) PROVE Reachable(k)'
      <3>1. k # claimed[w]
        BY <2>1, <2>4 DEF HoldInv
      <3>2. rows'[k] = rows[k]
        BY <1>1, <2>3, <2>4, <3>1 DEF SetStatus, HoldInv, Reachable, Stored, Types
      <3> QED  BY <1>7, <2>4, <3>2
    <2> QED  BY <1>5, <1>6, <2>1, <2>4 DEF HoldInv
  <1> QED  BY <1>1, <1>8, <1>9 DEF LoopInv, InAction

LEMMA StepHoldInv == IInv /\ HoldInv /\ [Next]_vars => HoldInv'
  <1> SUFFICES ASSUME IInv, HoldInv, [Next]_vars PROVE HoldInv'
    OBVIOUS
  <1>1. CASE UNCHANGED vars
    <2>1. \A w \in Workers : LoopInv(w)' /\ Held(w)' = Held(w)
      BY <1>1, OtherLoops DEF vars, Same, HoldInv
    <2> QED  BY <1>1, <2>1, NothingTaken DEF vars, RulesKept
  <1>2. ASSUME NEW f \in Flows, ActionStep(f) PROVE HoldInv'
    <2>1. CASE Statement(f)
      BY <2>1, OtherStatementHoldInv, LoopStatementHoldInv
    <2>2. CASE ~Statement(f)
      BY <1>2, <2>2, ActionGoesOn, GoesOnHoldInv DEF ActionStep
    <2> QED  BY <2>1, <2>2
  <1>3. ASSUME NEW f \in Requests, Receive(f) \/ Respond(f) PROVE HoldInv'
    <2>1. f \in Flows /\ Types
      BY DEF Flows, IInv
    <2>2. \A g \in Flows \ {f} : Same(g)
      BY <1>3, <2>1 DEF Receive, Respond, Execute, GoTo, SetContext, Same, Types
    <2>3. UNCHANGED rows /\ RulesKept
      BY <1>3 DEF Receive, Respond, RulesKept
    <2> QED  BY <2>2, <2>3, RequestHoldInv
  <1> QED  BY <1>1, <1>2, <1>3, PassHoldInv, HandlingHoldInv, BeatHoldInv DEF Next

\* For any number of worker loops: the job a worker claimed it can renew and complete, in
\* the scope of all tenants, whichever statement of the process built the query filter,
\* and no other worker has it meanwhile (QueuedJobWorker.ProcessNextJobAsync).
THEOREM ClaimsStayInReach == Spec => ClaimedJobsAreHeld
  <1> DEFINE InReach(w) ==
          /\ Statements(w) /\ call[w].name = "CompleteJobExecution"
               => found'[w] = {claimed[w]}
          /\ Statements(Heartbeat(w)) /\ pc[w] # "idle"
               => found'[Heartbeat(w)] = {claimed[w]}
  <1>1. ASSUME IInv, HoldInv, NEW w \in Workers, NEW f \in {w, Heartbeat(w)}, Statement(f),
               call[f].name \in {"CompleteJobExecution", "RenewJobLease"},
               call[f].job = claimed[w], claimed[w] \in Held(w)
        PROVE  found'[f] = {claimed[w]}
    <2>1. f \in Flows /\ f \notin Requests /\ pc[f] = "statement" /\ Types
      BY <1>1, FlowsApart DEF Statement, IInv
    <2>2. Reachable(claimed[w])
      BY <1>1 DEF HoldInv
    <2>3. Acting(f) = WorkerActor /\ ScopeOf(call[f].name, Acting(f)) = AllTenants
      BY <1>1, <2>1 DEF Acting, ScopeOf, WorkerActions
    <2>4. claimed[w] \in Visible(f)
      BY <1>1, <2>1, <2>2, <2>3, FilterInForce DEF Reachable, RulesInForce
    <2>5. {claimed[w]} \cap {j \in Visible(f) : rows[j].status = "running"} = {claimed[w]}
      BY <2>2, <2>4 DEF Reachable
    <2> QED  BY <1>1, <2>1, <2>5 DEF Statement, Performs, Types
  <1>2. ASSUME IInv, HoldInv, [Next]_vars, NEW w \in Workers PROVE InReach(w)
    <2>1. w \in Flows /\ Heartbeat(w) \in Flows /\ LoopInv(w)
      BY <1>2, FlowsApart DEF HoldInv
    <2>2. ASSUME Statements(w), call[w].name = "CompleteJobExecution"
          PROVE  found'[w] = {claimed[w]}
      <3>1. Statement(w)
        BY <1>2, <2>1, <2>2, StatementStep DEF Reject
      <3>2. call[w].job = claimed[w] /\ claimed[w] \in Held(w)
        BY <2>1, <2>2 DEF LoopInv, Held, Statements, InAction
      <3> QED  BY <1>1, <1>2, <2>2, <3>1, <3>2
    <2>3. ASSUME Statements(Heartbeat(w)) PROVE found'[Heartbeat(w)] = {claimed[w]}
      <3>1. call[Heartbeat(w)].name = "RenewJobLease" /\ call[Heartbeat(w)].job = claimed[w]
        BY <2>1, <2>3 DEF LoopInv, Statements, InAction
      <3>2. Statement(Heartbeat(w))
        BY <1>2, <2>1, <2>3, <3>1, StatementStep DEF Reject
      <3>3. claimed[w] \in Held(w)
        BY <2>1, <2>3 DEF LoopInv, Held, Statements, Holding
      <3> QED  BY <1>1, <1>2, <3>1, <3>2, <3>3
    <2> QED  BY <2>2, <2>3
  <1>3. IInv /\ HoldInv /\ [Next]_vars => [\A w \in Workers : InReach(w)]_vars
    BY <1>2
  <1> QED  BY <1>3, AlwaysIInv, InitHoldInv, StepHoldInv, PTL DEF Spec, ClaimedJobsAreHeld
=============================================================================
