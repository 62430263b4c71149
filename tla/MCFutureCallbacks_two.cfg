SPECIFICATION Spec

CONSTANTS
    Futures = {f1, f2}
    Callbacks = {c1, c2, c3}
    Sequential = FALSE
    none = none

INVARIANTS
    EntryForEachCallback

CHECK_DEADLOCK FALSE
