------------------------- MODULE MCTextureResidency -------------------------
\* Three levels, of which two may be dropped, for the residency model.
EXTENDS TextureResidency

Nothing == {}
UpperLeft == {"upperLeft"}
Stores == {"store"}
ViewDeletes == {"viewDelete"}
Updates == {"update"}
Overtakes == {"overtaken"}
AllocFails == {"allocFails"}
WaitFails == {"waitFails"}
=============================================================================
