CONSTANTS
    b1 = b1
    b2 = b2
    a1 = a1
    a2 = a2
    a3 = a3
    a4 = a4
    Buffers = {b1, b2}
    Allocations = {a1, a2, a3, a4}
    First <- Start
    MaxWrites = 2
    MaxSubmits = 3
    Workloads <- MCWorkloads
SPECIFICATION Spec
CHECK_DEADLOCK FALSE
INVARIANTS
    TypeOK
    DrawsUndisturbed
    MetalMatchesShadow
