SPECIFICATION FairSpec

CONSTANTS
    N = 3
    Futures = {f1, f2}
    Throwing = {f2}
    Cancellers = {c1}

INVARIANTS
    SetOnce
    OutcomeIsJustified

PROPERTIES
    Settles
    CancelReachesArguments

CHECK_DEADLOCK FALSE
