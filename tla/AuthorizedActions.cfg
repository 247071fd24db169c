SPECIFICATION Spec
CONSTANTS
    alpha = alpha
    beta = beta
    w1 = w1
    r1 = r1
    Tenants <- TwoTenants
    JobIds = {1, 2}
    Requests <- OneRequest
    Actors <- Everybody
    WorkerActor <- Service
    Workers <- OneWorker
    Configured <- Developer
INVARIANTS
    TouchesOnlyPermitted
    ContextIsOwn
    NoScopeRefused
PROPERTIES
    OwnJobsAreListed
    ClaimedJobsAreHeld
