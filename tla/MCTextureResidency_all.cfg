CONSTANTS
    LastLevel = 2
    Extras <- Nothing
    NoTexture = NoTexture
SPECIFICATION ResidencySpec
INVARIANTS
    ResidencyTypeOK
    MetalCurrent
    Rebuildable
