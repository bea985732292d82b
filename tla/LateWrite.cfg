\* An older write that lands after a newer one was acknowledged.
CONSTANTS
    Client = {c1}
    Names = {"a", "b"}
    Bodies = {"x", "y", "bad"}
    Unreadable = {"bad"}
    Blank = {}
    NoOrder = NoOrder
    MaxRules = 4
    Commands <- MCCommands
    InitialTables <- MCCurrentTables
    FirstFilter = 4
    FirstRule = 3
    FreshIds <- MCFreshIds
    MaxOps = 3
    MaxFaults = 0
    MaxLate = 1
SPECIFICATION Spec
INVARIANTS
    LastSaveStands
CHECK_DEADLOCK FALSE
