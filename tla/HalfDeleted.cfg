\* The table after a deletion of two rules whose second message fails.
CONSTANTS
    Names = {"n"}
    Bodies = {"x", "y"}
    NoOrder = NoOrder
    Account = {"a", "b"}
    Slot = {1, 2}
    Stored0 <- TwoAndOne
    FirstRule = 4
    Position = "end"
    Overlap = {"toggle", "search", "reload", "delete", "retry"}
    Faults = {"error", "no_password", "lost"}
    MaxOps = 3
    MaxFaults = 1
SPECIFICATION Spec
INVARIANT TableShowsStored
CHECK_DEADLOCK FALSE
