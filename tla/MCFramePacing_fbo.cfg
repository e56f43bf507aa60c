CONSTANTS
    RingCount = 3
    MaxGeneration = 8
    MaxInFlight = 4
    Workloads <- FboApplication
SPECIFICATION Spec
INVARIANTS SlotNotOverwritten
CHECK_DEADLOCK FALSE
