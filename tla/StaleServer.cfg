\* The account's server changes in Thunderbird, where no URL is set.
CONSTANTS
    Account = {"a"}
    Url = {"u", "v"}
    Password = {"old"}
    Caller = {k1}
    MaxLookups = 2
    MaxChanges = 1
SPECIFICATION CacheSpec
INVARIANTS
    CachedServerCurrent
