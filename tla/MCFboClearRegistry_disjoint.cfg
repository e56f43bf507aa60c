SPECIFICATION FboSpec
CONSTANTS
    image = image
    linear = linear
    ds = ds
    NoTexture = NoTexture
    Textures <- MCTextures
    Storage <- MCStorage
    Layers <- MCLayers
    Clears <- DisjointClears
    Passes <- DisjointPasses
    ClearValues = {0, 1}
    MaxPending = 2
INVARIANTS FboTypeOK DeferralInvisible
