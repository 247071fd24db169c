SPECIFICATION Spec
CONSTANTS
    alpha = alpha
    beta = beta
    w1 = w1
    r1 = r1
    Tenants <- TwoTenants
    JobIds = {1, 2}
    Requests <- OneRequest
    Actors <- Readers
    WorkerActor <- Service
    Workers <- OneWorker
    Configured <- Developer
PROPERTIES GlobalReadListsAll
