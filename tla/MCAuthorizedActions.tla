-------------------------- MODULE MCAuthorizedActions --------------------------
(* Constants for the model-checking runs of AuthorizedActions: two tenants, and *)
(* an owner, a manager and a reader of all tenants among those who send requests. *)
EXTENDS AuthorizedActions, TLC

CONSTANTS alpha, beta, w1, r1

Actor(id, tenant, permissions) ==
    [id |-> id, tenant |-> tenant, permissions |-> permissions]

TwoTenants == {alpha, beta}
OneWorker == {w1}
OneRequest == {r1}

Owner == Actor("owner", alpha, {"EmailRead", "EmailEnqueue"})
OtherOwner == Actor("other", alpha, {"EmailRead", "EmailEnqueue"})
ForeignOwner == Actor("owner", beta, {"EmailEnqueue"})
Manager == Actor("manager", beta, {"EmailRead", "EmailManage"})
GlobalManager == Actor("support", alpha, {"EmailManage", "GlobalRead"})
GlobalReader == Actor("reader", alpha, {"EmailRead", "GlobalRead"})
Service == Actor("worker", alpha, {"Execute"})
Developer == Actor("developer", alpha, {"All"})

Everybody == {Owner, OtherOwner, ForeignOwner, Manager, GlobalManager}
Readers == {Owner, ForeignOwner, GlobalReader}
=============================================================================
