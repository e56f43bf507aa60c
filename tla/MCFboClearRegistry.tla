------------------------- MODULE MCFboClearRegistry -------------------------
(***************************************************************************)
(* Instances of FboClearRegistry for TLC.                                  *)
(***************************************************************************)
EXTENDS FboClearRegistry

CONSTANTS image, linear, ds

MCTextures == {image, linear, ds}
MCStorage == [t \in MCTextures |-> IF t = linear THEN image ELSE t]
MCLayers == 2

Slice(t, a, s) == [tex |-> t, aspect |-> a, slice |-> s, arrayLength |-> 0]
Layered(t, a) == [tex |-> t, aspect |-> a, slice |-> 0, arrayLength |-> MCLayers]

Target(c, d, s) == [color |-> c, depth |-> d, stencil |-> s]

\* Clears of single slices, each on the texture that owns the memory.
DisjointClears == {Slice(image, "color", 0), Slice(image, "color", 1),
                   Slice(ds, "depth", 0), Slice(ds, "stencil", 0)}
\* Framebuffers over a slice, over a slice through the linear view, and over
\* both slices at once.
DisjointPasses == {Target(Slice(image, "color", 0), Slice(ds, "depth", 0), NoCoverage),
                   Target(Slice(linear, "color", 1), NoCoverage, NoCoverage),
                   Target(Layered(image, "color"), NoCoverage, NoCoverage)}

\* Clears of a slice and of all the layers.
LayeredClears == {Slice(image, "color", 0), Layered(image, "color")}
NoPasses == {}

=============================================================================
