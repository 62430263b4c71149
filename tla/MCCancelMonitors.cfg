SPECIFICATION FairSpec

CONSTANTS
    N = 2
    Settings <- Harmless
    Threads = {t1, t2, t3}
    nobody = nobody

INVARIANTS
    NoWaitCycle

PROPERTIES
    RequestReturns
    FailureReachesAll

CHECK_DEADLOCK FALSE
