\* A v1 filter whose deletion failed.
CONSTANTS
    Client = {c1}
    Names = {"a", "b"}
    Bodies = {"x", "y", "bad"}
    Unreadable = {"bad"}
    Blank = {}
    NoOrder = NoOrder
    MaxRules = 4
    Commands <- MCMigrationCommands
    InitialTables <- MCInitialTables
    FirstFilter = 4
    FirstRule = 3
    FreshIds <- MCFreshIds
    MaxOps = 2
    MaxFaults = 2
    MaxLate = 0
SPECIFICATION Spec
INVARIANTS
    MigratedOnce
CHECK_DEADLOCK FALSE
