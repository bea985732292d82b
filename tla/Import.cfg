\* One filter of any kind, or two of two kinds; the dialog opened twice.
CONSTANTS
    Number <- Sizes
    Account = {1}
    Opening = {1, 2}
    FilterLists <- VariedLists
    Lower <- LowerCase
    FreshName = "fresh"
    MaxUnread = 0
    MaxMishaps = 1
SPECIFICATION ImportSpec
INVARIANTS
    DeletedIsStored
    WholeOrWarned
CHECK_DEADLOCK FALSE
