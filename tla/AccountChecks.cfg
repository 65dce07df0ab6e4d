CONSTANTS
    g1 = g1
    g2 = g2
    l1 = l1
    a1 = a1
    bad = bad
    p1 = p1
    p2 = p2
    short = short
    long = long
    None = None
    Registrations <- TwoRegistrations
    Logins <- OneLogin
    Addresses <- TwoAddresses
    Malformed <- OneMalformed
    Passwords <- FourPasswords
    PasswordLength <- Lengths
    MinPassword = 12
    MaxPassword = 128
    DeviceLengths <- Devices
    MinDevice = 3
    MaxDevice = 64
SPECIFICATION Spec
SYMMETRY Symmetry
CHECK_DEADLOCK FALSE
INVARIANTS
    OneAccountPerAddress
    SessionIsEarned
    NobodyLockedOut
