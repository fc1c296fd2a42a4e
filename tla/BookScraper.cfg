\* sites of three pages, four limits; the program ends
SPECIFICATION FairSpec
CONSTANTS
    p1 = p1
    p2 = p2
    p3 = p3
    First = p1
    Sites <- AllSites
    Limits <- SomeLimits
    MAX_ATTEMPTS = 3
    MaxPages = 5
    NoPage = NoPage
    NoLimit = NoLimit
    Old = Old
INVARIANTS GivesUpRightly
PROPERTIES WalkSpec Ends
CHECK_DEADLOCK FALSE
