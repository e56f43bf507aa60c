\* What residency does not survive, one at a time.  Rebuildable is violated with
\* Stores, UpperLeft, ViewDeletes and AllocFails, MetalCurrent with Updates,
\* Overtakes and WaitFails.
CONSTANTS
    LastLevel = 2
    Extras <- Overtakes
    NoTexture = NoTexture
SPECIFICATION ResidencySpec
INVARIANTS
    MetalCurrent
    Rebuildable
