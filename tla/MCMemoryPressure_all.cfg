SPECIFICATION PressureSpec
CONSTANTS
    c1 = c1
    c2 = c2
    Contexts = {c1, c2}
    Ratios <- Bands
    Watermarks <- MidWatermarks
    MaxEvents = 2

INVARIANTS
    PressureTypeOK
    ReactionJustified
    HysteresisSound
PROPERTY EventAnswered
