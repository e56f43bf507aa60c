SPECIFICATION FboSpec
CONSTANTS
    image = image
    linear = linear
    ds = ds
    NoTexture = NoTexture
    Textures <- MCTextures
    Storage <- MCStorage
    Layers <- MCLayers
    Clears <- LayeredClears
    Passes <- NoPasses
    ClearValues = {0, 1}
    MaxPending = 2
INVARIANTS ContentsKept
