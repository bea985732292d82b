\* One message at a time, restarts at every await.
CONSTANTS
    Account = {"a", "b"}
    Url = {"u", "v"}
    Client = {c1}
    InitialStores <- AllStores
    MaxOps = 4
    MaxRestarts = 2
SPECIFICATION Spec
INVARIANTS
    TypeOK
    SourcesAgree
PROPERTIES
    LegacyKeysMoved
    ImplementsStore
CHECK_DEADLOCK FALSE
