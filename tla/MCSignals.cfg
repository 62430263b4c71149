SPECIFICATION FairSpec

CONSTANTS
    Listeners = {l1, l2}
    Deprecated = {l2}
    Disconnects = {d1, d2}
    Events = {e1, e2}
    Opaque = {e2}
    Threads = {t1, t2}
    nobody = nobody

INVARIANTS
    ListenerIsLive
    DisconnectedIsOff

PROPERTIES
    EventsDelivered
    DisconnectAnswers
    ListenerReleased

CHECK_DEADLOCK FALSE
