SPECIFICATION FairSpec
CONSTANTS
    e1 = e1
    e2 = e2
    r1 = r1
    r2 = r2
    w1 = w1
    w2 = w2
    Events <- TwoEvents
    Sensitive <- TokenEvents
    Audited <- AuditedEvents
    Requests <- TwoRequests
    Workers <- TwoWorkers
    MAX_ATTEMPTS = 2
    BatchSizes = {1, 2}
    MaxFaults = 2
    MaxReplays = 1
INVARIANTS ClaimExclusive Transactional DuplicatesNeedAFault SecretsConfined
PROPERTIES RowLifecycle ImplementsRelay EventuallySettled
CHECK_DEADLOCK FALSE
