SPECIFICATION ListenersFairSpec

CONSTANTS
    Listeners = {l1, l2}
    Events = {e1, e2}
    MaxLength = 3
    nobody = nobody
    null = null

INVARIANTS
    OneNativeListener
    DispatchComplete

PROPERTIES
    OnlyRegisteredCalled
    DispatchEnds

