CONSTANTS
    e1 = e1
    e2 = e2
    w1 = w1
    w2 = w2
    None = None
    Events <- TwoEvents
    Workers <- TwoWorkers
    LockLease = 2
    WorkTimeout = 1
    MaxAttempts = 1
    RetryDelays <- ShortDelays
    MaxTime = 4
SPECIFICATION WorkerSpec
SYMMETRY Symmetry
CHECK_DEADLOCK FALSE
INVARIANTS
    StopRecordsAttempt
    StopsInTime
