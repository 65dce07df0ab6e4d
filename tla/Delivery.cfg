CONSTANTS
    g1 = g1
    s1 = s1
    c1 = c1
    d1 = d1
    d2 = d2
    e1 = e1
    None = None
    Unknown = Unknown
    Registrations <- OneRegistration
    Resends <- OneResend
    Confirmations <- OneConfirmation
    Deliveries <- TwoDeliveries
    Emails <- OneEmail
    TokenLifetime = 2
    ResendCooldown = 1
    LimitWindow = 2
    ResendLimit = 3
    MaxTime = 2
    MaxAttempts = 2
    MaxFaults = 1
SPECIFICATION FairJoinedSpec
CHECK_DEADLOCK FALSE
INVARIANTS
    JoinedTypeOK
    ProcessedIsDelivered
    OneMailPerFault
PROPERTIES
    EveryVerificationDelivered
