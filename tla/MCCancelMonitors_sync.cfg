SPECIFICATION FairSpec

CONSTANTS
    N = 2
    Settings <- SyncInPlace
    Threads = {t1, t2}
    nobody = nobody

PROPERTIES
    RequestReturns

CHECK_DEADLOCK FALSE
