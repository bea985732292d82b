\* A password changed in Thunderbird.
CONSTANTS
    Account = {"a"}
    Url = {"u"}
    Password = {"old", "new"}
    Caller = {k1}
    MaxLookups = 2
    MaxChanges = 1
SPECIFICATION CacheSpec
INVARIANTS
    CachedPasswordCurrent
