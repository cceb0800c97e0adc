SPECIFICATION Spec
CONSTANTS
    Jobs = {1, 2}
    Workers = {w1}
    NoWorker = NoWorker
    MaxAttempts = 1
    Slots = 1
    Requests = {r1, r2}
    Cancels = {c1}
    Credits = 1
    NoJob = 0
    Rebuild = TRUE
    Lapses = FALSE
    Crashes = FALSE
    Faults = FALSE
    ApiCrashes = TRUE
CHECK_DEADLOCK FALSE
INVARIANTS
    SucceededIsAnnounced
    ActiveIsPaid
