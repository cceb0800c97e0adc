SPECIFICATION Spec
CONSTANTS
    Jobs = {1}
    Workers = {w1}
    NoWorker = NoWorker
    MaxAttempts = 2
    Slots = 2
    Requests = {r1}
    Cancels = {c1}
    Credits = 1
    NoJob = 0
    Rebuild = FALSE
    Lapses = FALSE
    Crashes = FALSE
    Faults = FALSE
    ApiCrashes = FALSE
CHECK_DEADLOCK FALSE
INVARIANTS
    SuccessIsCharged
