\* Three windows in all, two messages, one failed search.
CONSTANTS
    Message = {"m", "n"}
    MaxWindows = 3
    MaxFaults = 1
SPECIFICATION Spec
INVARIANTS
    OneWindow
PROPERTIES
    ShowsItsMessage
    EveryOpeningEnds
