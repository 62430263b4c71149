SPECIFICATION ValuesSpec

CONSTANTS
    JavaThreads = {j1}
    NativeThreads = {n1}
    MaxDepth = 3
    Attachments = 2
    Cells = {v1, v2}
    MaxHandles = 2
    MemorySize = 2
    MaxConversions = 3

INVARIANTS
    EnvironmentIsCurrent
    AttachedWhileNeeded
    ReferencesOwned
    LastConversionsLive
