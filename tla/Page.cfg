\* Two accounts; messages that fail; what the keyboard starts while a handler is at work.
CONSTANTS
    Names = {"n"}
    Bodies = {"x", "y"}
    NoOrder = NoOrder
    Account = {"a", "b"}
    Slot = {1, 2}
    Stored0 <- TwoAndOne
    FirstRule = 4
    Position = "end"
    Overlap = {"toggle", "search", "reload", "delete", "retry"}
    Faults = {"error", "no_password", "lost"}
    MaxOps = 3
    MaxFaults = 1
SPECIFICATION Spec
INVARIANTS
    TypeOK
    PageShowsStored
    NumberedAsStored
    AccountsApart
PROPERTIES
    EveryFlowEnds
CHECK_DEADLOCK FALSE
