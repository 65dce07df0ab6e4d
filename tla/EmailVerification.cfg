CONSTANTS
    g1 = g1
    s1 = s1
    s2 = s2
    c1 = c1
    c2 = c2
    d1 = d1
    d2 = d2
    e1 = e1
    None = None
    Unknown = Unknown
    Registrations <- OneRegistration
    Resends <- TwoResends
    Confirmations <- TwoConfirmations
    Deliveries <- TwoDeliveries
    Emails <- OneEmail
    TokenLifetime = 2
    ResendCooldown = 1
    LimitWindow = 2
    ResendLimit = 2
    MaxTime = 3
SPECIFICATION Spec
CHECK_DEADLOCK FALSE
SYMMETRY Symmetry
INVARIANTS
    TypeOK
    AtMostOneLive
    CooldownHolds
    HourlyLimit
    VerifiedByOneToken
PROPERTIES
    ImplementsVerificationLinks
