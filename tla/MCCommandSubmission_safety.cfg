CONSTANTS
    current = current
    standalone = standalone
    o1 = o1
    o2 = o2
    Slots <- MCSlots
    Current = current
    Objects <- MCOneObject
    MaxBuffers = 3
    Bound = 2
    Reserve = 1
    WaitsTimeOut = TRUE
    NilBuffers = TRUE
    RingFallback = TRUE
SPECIFICATION Spec
INVARIANTS
    TypeOK
    CompletionSound
    TokensConserved
    RetainedUntilCompleted
PROPERTY PoolSafety
