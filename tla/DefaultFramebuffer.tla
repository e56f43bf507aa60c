------------------------- MODULE DefaultFramebuffer -------------------------
(***************************************************************************)
(* The default framebuffer as OpenGL describes it: every clear, draw and   *)
(* pixel transfer takes effect at once and in the order of the calls, and  *)
(* a read or a swap shows what the calls before it left.                   *)
(***************************************************************************)
CONSTANTS
    Bits,       \* the attachments, the color one split into parts
    Color,      \* the parts of the color attachment: what a read returns
    Values,     \* what a clear or a transfer can set a part to
    Ink,        \* what drawing leaves
    Undefined,  \* contents nobody has defined
    First       \* what the color attachment starts with

VARIABLES
    image,      \* image[b]: the contents of b
    shown       \* the color the last call, a read or swap, showed

fbVars == <<image, shown>>

FbInit ==
    /\ image = [b \in Bits |-> IF b \in Color THEN First ELSE Undefined]
    /\ shown = [b \in Color |-> Undefined]

\* A clear, or pixels written by the application.
FbWrite(S, v) ==
    /\ image' = [b \in Bits |-> IF b \in S THEN v ELSE image[b]]
    /\ shown' = [b \in Color |-> Undefined]

FbDraw(S) == FbWrite(S, Ink)

\* A resize leaves some parts undefined.
FbResize(S) == FbWrite(S, Undefined)

\* What is undefined may show as anything.
FbShow ==
    /\ shown' \in [Color -> Values \cup {Ink, Undefined}]
    /\ \A b \in Color : image[b] # Undefined => shown'[b] = image[b]
    /\ UNCHANGED image

FbNext ==
    \/ \E S \in SUBSET Bits, v \in Values : FbWrite(S, v)
    \/ \E S \in SUBSET Bits : FbDraw(S) \/ FbResize(S)
    \/ FbShow

FbSpec == FbInit /\ [][FbNext]_fbVars

=============================================================================
