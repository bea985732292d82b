\* One account, two commands, two lookups, two changes.
CONSTANTS
    Account = {a}
    Url = {"u", "v"}
    Password = {"old"}
    Caller = {k1, k2}
    MaxLookups = 2
    MaxChanges = 2
SPECIFICATION CacheSpec
INVARIANTS
    CachedUrlCurrent
    NoRejectedClient
PROPERTIES
    EveryCallerAnswered
