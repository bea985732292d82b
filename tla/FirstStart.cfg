\* Two installations that both find no combined filter.
CONSTANTS
    Client = {c1, c2}
    Names = {"a", "b"}
    Bodies = {"x", "y", "bad"}
    Unreadable = {"bad"}
    Blank = {}
    NoOrder = NoOrder
    MaxRules = 4
    Commands <- MCSharedCommands
    InitialTables <- MCInitialTables
    FirstFilter = 4
    FirstRule = 3
    FreshIds <- MCFreshIds
    MaxOps = 2
    MaxFaults = 0
    MaxLate = 0
SPECIFICATION Spec
INVARIANTS
    OneCombinedFilter
CHECK_DEADLOCK FALSE
