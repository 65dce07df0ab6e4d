CONSTANTS
    l1 = l1
    l2 = l2
    r1 = r1
    r2 = r2
    r3 = r3
    a1 = a1
    op1 = op1
    op2 = op2
    None = None
    Unknown = Unknown
    Logins <- OneLogin
    Refreshes <- ThreeRefreshes
    Authentications <- NoRequests
    Operations <- TwoOperations
    SessionLifetime = 2
    AccessTokenLifetime = 2
    RefreshRetryTTL = 1
    InactiveTTL = 1
    MaxTime = 1
    MaxRedisLosses = 0
    RedisMayFail = TRUE
SPECIFICATION Spec
CHECK_DEADLOCK FALSE
SYMMETRY Symmetry
INVARIANTS
    TypeOK
    OneUnusedToken
PROPERTIES
    ImplementsTokenFamily
