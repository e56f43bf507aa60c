CONSTANTS
    inner = inner
    outer = outer
    depth = depth
    accum = accum
    red = red
    blue = blue
    Ink = ink
    Undefined = undefined
    NoFill = noFill
    Bits <- MCBits
    Color <- MCColor
    Inside <- MCInside
    Values <- MCValues
    First = red
    Accum = accum
    Workloads <- ConvertedWorkloads
SPECIFICATION Spec
INVARIANT NothingLost
PROPERTY ImageSpec
