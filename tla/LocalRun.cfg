\* Three rules on three messages, two to a page.
CONSTANTS
    Number <- NoSizes
    Run = {1}
    Msg = {"m1", "m2", "m3"}
    Content <- Mails
    Rule <- SomeRules
    Folder = {"X", "Trash"}
    PageSize = 2
    UserTags = {"u"}
    MaxUser = 2
    MaxFaults = 2
SPECIFICATION RunnerSpec
INVARIANTS
    DoneIsDone
    OnlySuited
PROPERTIES
    RunEnds
CHECK_DEADLOCK FALSE
