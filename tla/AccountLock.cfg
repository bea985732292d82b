\* Five calls on two accounts, in every assignment.
CONSTANTS
    Account = {a1, a2}
    MaxCalls = 5
SPECIFICATION FairSpec
INVARIANTS
    TypeOK
    MutualExclusion
    MapIsTail
PROPERTIES
    FirstInFirstOut
    EveryCallIsReleased
CHECK_DEADLOCK FALSE
