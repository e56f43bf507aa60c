CONSTANTS
    RingCount = 3
    MaxGeneration = 5
    MaxInFlight = 4
    Workloads <- AnyApplication
SPECIFICATION FairSpec
INVARIANTS
    TypeOK
    SlotsBalanced
    PacedSlotNotOverwritten
PROPERTIES
    SlotsReturn
CHECK_DEADLOCK FALSE
