SPECIFICATION FairSpec

CONSTANTS
    N = 2
    ThenLinks = {1}
    Cancellers = {c1, c2}

INVARIANTS
    TypeOK
    SingleAssignment
    CancelNotLost

PROPERTIES
    ImplementsFutureChain
    Resolves
    FollowsNext
    CancelArrives
