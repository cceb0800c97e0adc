SPECIFICATION FairSpec
CONSTANTS
    Jobs = {1, 2}
    MaxEvents = 1
    Limit = 1
    MaxDrops = 1
    Reaps = TRUE
    Skews = FALSE
CHECK_DEADLOCK FALSE
INVARIANTS
    InOrderAndOnce
PROPERTIES
    TailKeepsItsWord
