CONSTANTS
    q1 = q1
    q2 = q2
    q3 = q3
    Requests <- ThreeRequests
    PoolSize = 2
    Environment <- Environments
SPECIFICATION FairSpec
CHECK_DEADLOCK FALSE
INVARIANTS
    TypeOK
    ConfigurationSuffices
    GracefulIsComplete
    AnsweredWasSaved
PROPERTIES
    SignalEndsProcess
    ServesOrEnds
