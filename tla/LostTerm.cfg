\* A term that cannot be read.
CONSTANTS
    Number <- Sizes
    Account = {1}
    Opening = {1}
    FilterLists <- TwoTerms
    Lower <- LowerCase
    FreshName = "fresh"
    MaxUnread = 1
    MaxMishaps = 0
SPECIFICATION ImportSpec
INVARIANT WholeOrWarned
CHECK_DEADLOCK FALSE
