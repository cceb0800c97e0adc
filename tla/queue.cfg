SPECIFICATION Spec
CONSTANTS
    w1 = w1
    w2 = w2
    w3 = w3
    e1 = e1
    e2 = e2
    Jobs = {1, 2}
    Builds <- MCBuilds2
    ExpertOf <- MCExpertOf2
    Experts = {e1}
    Workers = {w1, w2}
    NoWorker = NoWorker
    MaxAttempts = 2
    Slots = 1
SYMMETRY MCSymmetry
CHECK_DEADLOCK FALSE
INVARIANTS
    LatestClaimHoldsLock
    OneActiveBuild
PROPERTIES
    TerminalIsFinal
    FreshLockIsRespected
    ImplementsLifecycle
