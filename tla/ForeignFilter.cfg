\* A foreign filter that runs when the first rule is saved.
CONSTANTS
    Client = {c1}
    Names = {"a", "b"}
    Bodies = {"x", "y", "bad"}
    Unreadable = {"bad"}
    Blank = {}
    NoOrder = NoOrder
    MaxRules = 4
    Commands <- MCCommands
    InitialTables <- MCCurrentTables
    FirstFilter = 4
    FirstRule = 3
    FreshIds <- MCFreshIds
    MaxOps = 1
    MaxFaults = 0
    MaxLate = 0
SPECIFICATION Spec
PROPERTIES
    ForeignKeepsRunning
CHECK_DEADLOCK FALSE
