\* Two runs, the second started when the dialog of the first was closed; one message to a page.
CONSTANTS
    Number <- NoSizes
    Run = {1, 2}
    Msg = {"m1", "m3"}
    Content <- Mails
    Rule <- MoveFirst
    Folder = {"X", "Trash"}
    PageSize = 1
    UserTags = {"u"}
    MaxUser = 1
    MaxFaults = 1
SPECIFICATION RunnerSpec
PROPERTIES
    RunEnds
CHECK_DEADLOCK FALSE
