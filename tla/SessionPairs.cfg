CONSTANTS
    l1 = l1
    l2 = l2
    r1 = r1
    r2 = r2
    r3 = r3
    a1 = a1
    op1 = op1
    op2 = op2
    None = None
    Unknown = Unknown
    Logins <- TwoLogins
    Refreshes <- TwoRefreshes
    Authentications <- NoRequests
    Operations <- TwoOperations
    SessionLifetime = 2
    AccessTokenLifetime = 2
    RefreshRetryTTL = 1
    InactiveTTL = 1
    MaxTime = 0
    MaxRedisLosses = 0
    RedisMayFail = TRUE
SPECIFICATION FairSpec
CHECK_DEADLOCK FALSE
INVARIANTS
    StoresFollowDatabase
PROPERTIES
    EveryRequestAnswered
