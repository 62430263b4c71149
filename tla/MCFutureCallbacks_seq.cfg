SPECIFICATION FairSpec

CONSTANTS
    Futures = {f1, f2}
    Callbacks = {c1, c2, c3}
    Sequential = TRUE
    none = none

INVARIANTS
    CalledAsPromised
    EntriesMatchCallbacks
    InfoLivesWithCallback

PROPERTIES
    CallbackServed

CHECK_DEADLOCK FALSE
