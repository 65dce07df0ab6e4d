CONSTANTS
    e1 = e1
    e2 = e2
    w1 = w1
    w2 = w2
    w3 = w3
    None = None
    Events <- OneEvent
    Workers <- ThreeWorkers
    LockLease = 1
    WorkTimeout = 1
    MaxAttempts = 2
    RetryDelays <- ShortDelays
    MaxTime = 5
SPECIFICATION Spec
SYMMETRY Symmetry
CHECK_DEADLOCK FALSE
INVARIANTS
    TypeOK
    OverlapOnlyAfterLease
    VerdictOfLastAttempt
PROPERTIES
    OnlyHolderReleases
    ImplementsQueue
