\* One user and two passwords, two requests at a time from two addresses.
CONSTANTS
    PerMin = 2
    Minute = 2
    MaxBuckets = 1
    Slot = {s1, s2}
    Ip = {i, j}
    User = {"u"}
    Password = {p, q}
    CacheTtl = 1
    CacheMax = 2
    Threshold = 2
    Window = 2
    BindTime = 1
    MaxTime = 5
    MaxRequests = 4
    MaxChanges = 1
SYMMETRY Symmetry
SPECIFICATION Spec
INVARIANTS
    RateHolds
    VerdictsAreRight
CHECK_DEADLOCK FALSE
