CONSTANTS
    e1 = e1
    e2 = e2
    w1 = w1
    w2 = w2
    None = None
    Events <- OneEvent
    Workers <- TwoWorkers
    LockLease = 2
    WorkTimeout = 1
    MaxAttempts = 3
    RetryDelays <- ShortDelays
    MaxTime = 4
    MaxTrouble = 4
SPECIFICATION ProgressSpec
CHECK_DEADLOCK FALSE
PROPERTIES
    EveryEventFinished
