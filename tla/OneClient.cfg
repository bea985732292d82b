\* One installation: failed reads, lost calls and answers, restarts.
CONSTANTS
    Client = {c1}
    Names = {"a", "b"}
    Bodies = {"x", "y", "bad"}
    Unreadable = {"bad"}
    Blank = {}
    NoOrder = NoOrder
    MaxRules = 4
    Commands <- MCCommands
    InitialTables <- MCInitialTables
    FirstFilter = 4
    FirstRule = 3
    FreshIds <- MCFreshIds
    MaxOps = 3
    MaxFaults = 2
    MaxLate = 0
SPECIFICATION Spec
INVARIANTS
    TypeOK
    OneCombinedFilter
    AnswerIsStored
    SavedRuns
PROPERTIES
    Serialised
    MigrationKeepsRules
CHECK_DEADLOCK FALSE
