SPECIFICATION FairSpec
CONSTANTS
    Jobs = {1}
    Workers = {w1, w2}
    NoWorker = NoWorker
    MaxAttempts = 2
    Slots = 2
    Requests = {r1}
    Cancels = {}
    Credits = 1
    NoJob = 0
    Rebuild = TRUE
    Lapses = FALSE
    Crashes = TRUE
    Faults = FALSE
    ApiCrashes = FALSE
CHECK_DEADLOCK FALSE
INVARIANTS
    OneAttemptAtATime
    ReadyIsChattable
    AgreesAtRest
PROPERTIES
    ExpertSettles
