\* An import whose write lands while its answer, or the list call after it, is lost.
CONSTANTS
    Client = {c1}
    Names = {"a", "b"}
    Bodies = {"x", "y", "bad"}
    Unreadable = {"bad"}
    Blank = {}
    NoOrder = NoOrder
    MaxRules = 4
    Commands <- MCImportCommands
    InitialTables <- MCCurrentTables
    FirstFilter = 4
    FirstRule = 3
    FreshIds <- MCFreshIds
    MaxOps = 2
    MaxFaults = 1
    MaxLate = 0
SPECIFICATION Spec
INVARIANTS
    FailedImportSavesNothing
CHECK_DEADLOCK FALSE
