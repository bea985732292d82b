\* Two installations share the mailbox; a call may land late.
CONSTANTS
    Client = {c1, c2}
    Names = {"a", "b"}
    Bodies = {"x", "y", "bad"}
    Unreadable = {"bad"}
    Blank = {}
    NoOrder = NoOrder
    MaxRules = 4
    Commands <- MCSharedCommands
    InitialTables <- MCInitialTables
    FirstFilter = 4
    FirstRule = 3
    FreshIds <- MCFreshIds
    MaxOps = 2
    MaxFaults = 1
    MaxLate = 1
SPECIFICATION FairSpec
INVARIANTS
    CreatedOnce
PROPERTIES
    ForeignUntouched
    CombinedFilterStays
    EveryCommandEnds
CHECK_DEADLOCK FALSE
