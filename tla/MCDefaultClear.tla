--------------------------- MODULE MCDefaultClear ---------------------------
(***************************************************************************)
(* Two parts of the color, depth, two values and the applications for the  *)
(* model of the default framebuffer.                                       *)
(***************************************************************************)
EXTENDS DefaultClear

CONSTANTS inner, outer, depth, accum, red, blue

MCColor == {inner, outer}
MCInside == {inner}
MCBits == MCColor \cup {depth}
MCValues == {red, blue}

\* Any mask, with and without the accumulation bit.
AnyMask == {c \cup d : c \in {{}, MCColor}, d \in SUBSET {depth, accum}}

\* Every glClear clears both attachments.
FullMask == {MCBits, MCBits \cup {accum}}

\* One application draws to the default framebuffer only.  Two also draw into
\* framebuffer objects, but never clear one attachment without the other: one
\* that uses shaders and never looks at or writes single pixels, and one that
\* does, with the fixed-function pipeline and without glBitmap.
OneTarget == [masks |-> AnyMask, calls |-> Calls \ {"fboDraw", "readOther", "mixed"}]
Shaders == [masks |-> FullMask,
            calls |-> {"draw", "deferredDraw", "immediate", "fboDraw", "resolve",
                       "present", "finish", "pressure", "resize"}]
FixedFunction == [masks |-> FullMask,
                  calls |-> Calls \ {"draw", "deferredDraw", "bitmap", "scissor", "mixed"}]

MCWorkloads == {OneTarget, Shaders, FixedFunction}

\* One that writes pixels after it has drawn.
MixedWorkloads == {[masks |-> FullMask, calls |-> {"immediate", "bitmap", "read", "mixed"}]}

\* One that resolves into the target it has just cleared.
ResolveWorkloads == {[masks |-> FullMask, calls |-> {"resolve", "read", "mixed"}]}

\* One that has pixels converted and clears one attachment without the other.
ConvertedWorkloads == {[OneTarget EXCEPT !.calls = @ \cup {"readOther"}]}

\* One that reads pixels and draws into framebuffer objects with shaders.
FboReadWorkloads == {[Shaders EXCEPT !.calls = @ \cup {"read"}]}

=============================================================================
