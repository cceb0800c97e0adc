SPECIFICATION Spec
CONSTANTS
    Jobs = {1}
    Workers = {w1, w2}
    NoWorker = NoWorker
    MaxAttempts = 2
    Slots = 1
    Requests = {r1}
    Cancels = {}
    Credits = 1
    NoJob = 0
    Rebuild = TRUE
    Lapses = TRUE
    Crashes = FALSE
    Faults = TRUE
    ApiCrashes = FALSE
CHECK_DEADLOCK FALSE
SYMMETRY MCSymmetry
PROPERTIES
    ImplementsQueue
