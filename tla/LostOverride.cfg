\* Two pages save the settings of two accounts.
CONSTANTS
    Account = {"a", "b"}
    Url = {"u", "v"}
    Client = {c1, c2}
    InitialStores <- CurrentStores
    MaxOps = 2
    MaxRestarts = 0
SPECIFICATION Spec
PROPERTIES
    SaveTouchesOneAccount
CHECK_DEADLOCK FALSE
