---------------------------- MODULE DefaultClear ----------------------------
(***************************************************************************)
(* The default framebuffer: its deferred clears and its CPU shadow.        *)
(*                                                                         *)
(* glClear only notes what it owes (GLContext::clear, pendingMask); the    *)
(* next draw, present, finish or read hands that to the frame graph        *)
(* (encodePendingWork, encodeClear), which owes it in turn                 *)
(* (hasPendingClear, pendingClearMask) until a render pass on the default  *)
(* target opens and uses it as its load action, or until flushPendingClear *)
(* opens a pass for nothing else.  Draws may in turn be deferred to a      *)
(* batch.                                                                  *)
(*                                                                         *)
(* Besides, the context keeps the color in memory.  A full clear of that   *)
(* shadow is itself deferred (a fill); glBitmap, glDrawPixels and the like *)
(* write it, glReadPixels prefers it, a draw from a translated shader      *)
(* uploads it first, and a draw on the GPU alone makes it invalid.         *)
(*                                                                         *)
(* What is tracked is the contents of the attachments in the order the GPU *)
(* will see the commands, the color one in parts so that a transfer can    *)
(* cover some of it; the target is the offscreen one, whose contents       *)
(* outlive a command buffer.  The shadows of depth and stencil, partial    *)
(* color masks and failing allocations are left out.                       *)
(***************************************************************************)
EXTENDS Naturals

CONSTANTS
    Bits, Color, Values, Ink, Undefined, First,  \* see DefaultFramebuffer
    Inside,         \* the color parts a partial write covers
    NoFill,         \* no clear of the shadow is deferred
    Accum,          \* GL_ACCUM_BUFFER_BIT, which no attachment stands for
    Workloads       \* the applications considered: the masks each one calls
                    \* glClear with, and its other calls

Calls == {"draw", "deferredDraw", "immediate", "mirrored", "fboDraw", "bitmap",
          "pixels", "accum", "blit", "scissor", "resolve", "present", "finish",
          "read", "readOther", "pressure", "resize", "mixed"}

ASSUME ClearAssumption ==
    /\ Color \subseteq Bits /\ Inside \subseteq Color
    /\ First \in Values
    /\ Accum \notin Bits
    /\ \A w \in Workloads :
          /\ w.calls \subseteq Calls
          /\ \A mask \in w.masks : /\ mask \subseteq Bits \cup {Accum}
                                   /\ mask \cap Color \in {{}, Color}
    /\ Ink # Undefined /\ {Ink, Undefined, NoFill} \cap Values = {}

VARIABLES
    pendingMask,    \* GLContext: what glClear owes to the frame graph,
    pendingValue,   \* with the values captured by the calls
    shadow,         \* defaultFramebufferRGBA8,
    shadowValid,    \* whether it is the current color,
    fill,           \* and the clear that is still to be written to it
    owedMask,       \* MetalFrameGraph: what it owes to the next pass,
    owedValue,      \* with its values
    batch,          \* attachments the deferred draws will write
    actual,         \* contents after everything encoded so far
    encoder,        \* target of the open render encoder, or "none"
    nested,         \* a second encoder was opened while one was open
    shown,          \* the color the last call, a read or present, showed
    colorIn,        \* by the calls so far, where the current color is,
    drawn,          \* and the image OpenGL says they have made
    workload        \* what this application calls

pendingVars == <<pendingMask, pendingValue>>
shadowVars == <<shadow, shadowValid, fill, colorIn>>
graphVars == <<owedMask, owedValue, batch, actual, encoder, nested>>
vars == <<pendingVars, shadowVars, graphVars, drawn, shown, workload>>

Contents == Values \cup {Ink, Undefined}

-----------------------------------------------------------------------------
(* What the calls are made of, as functions of the frame graph's state.    *)

\* The frame graph before a call.
Graph == [owedMask |-> owedMask, owedValue |-> owedValue, batch |-> batch,
          actual |-> actual, encoder |-> encoder, nested |-> nested]

\* A pass on the default target opens: what is owed becomes its load actions.
OpenPass(g) ==
    [g EXCEPT !.actual = [b \in Bits |-> IF b \in g.owedMask THEN g.owedValue[b]
                                                              ELSE @[b]],
              !.owedMask = {}]

\* Something is written on the GPU.
Paint(g, S, v) ==
    [g EXCEPT !.actual = [b \in Bits |-> IF b \in S THEN v ELSE @[b]]]

\* flushParallelTranslatedDrawBatch.
FlushBatch(g) ==
    IF g.batch = {} THEN g
    ELSE [Paint(OpenPass(g), g.batch, Ink) EXCEPT !.batch = {}, !.encoder = "none"]

\* endRenderPass flushes the batch first.
EndRenderPass(g) == [FlushBatch(g) EXCEPT !.encoder = "none"]

\* flushPendingClear opens an encoder for the clear alone.
FlushPendingClear(g) ==
    IF g.owedMask = {} THEN g
    ELSE [OpenPass(g) EXCEPT !.nested = @ \/ g.encoder # "none"]

\* Mutant: a clear does not close the open pass.
EncodePendingWork_KeepsPass(g) ==
    IF pendingMask = {} THEN g
    ELSE [FlushBatch(g) EXCEPT !.owedMask = pendingMask,
                               !.owedValue = pendingValue]

\* encodePendingWork and encodeClear: the batch and the open pass end, and
\* the mask and the values replace those the frame graph still owes.
EncodePendingWork(g) ==
    IF pendingMask = {} THEN g
    ELSE [EndRenderPass(g) EXCEPT !.owedMask = pendingMask,
                                  !.owedValue = pendingValue]

\* Everything the GPU owes is encoded: what present, finish and a copy from
\* the target start with.
Settled == FlushPendingClear(EndRenderPass(EncodePendingWork(Graph)))

\* The frame graph is left in state g.
Becomes(g) ==
    /\ owedMask' = g.owedMask
    /\ owedValue' = g.owedValue
    /\ batch' = g.batch
    /\ actual' = g.actual
    /\ encoder' = g.encoder
    /\ nested' = g.nested

\* A call that starts with encodePendingWork.
AfterPendingWork(g) ==
    /\ Becomes(g)
    /\ pendingMask' = {}
    /\ UNCHANGED pendingValue

-----------------------------------------------------------------------------
(* The shadow.                                                             *)

\* materializeDefaultFbShadowClear: the bytes once the fill is written.
Filled == IF fill = NoFill THEN shadow ELSE [b \in Color |-> fill]

\* ensureDefaultFramebufferShadow, after which the parts S are overwritten.
\* The shadow counts as valid from then on, whatever it held.
WriteShadow(bytes, S, v) ==
    /\ shadow' = [b \in Color |-> IF b \in S THEN v ELSE bytes[b]]
    /\ shadowValid' = TRUE
    /\ fill' = NoFill

\* invalidateDefaultFramebufferShadow; a deferred fill stays.
InvalidateShadow ==
    /\ shadowValid' = FALSE
    /\ colorIn' = "gpu"
    /\ UNCHANGED <<shadow, fill>>

\* The color of the target as copyRGBA8Pixels returns it.
GpuColor(g) == [b \in Color |-> g.actual[b]]

\* Before a translated draw the shadow, unless a fill is deferred, is written
\* to the target by writeDefaultColorRegion.
UploadShadow(g) ==
    IF shadowValid /\ fill = NoFill
    THEN LET h == EndRenderPass(FlushPendingClear(g))
         IN  [h EXCEPT !.actual = [b \in Bits |-> IF b \in Color THEN shadow[b] ELSE @[b]]]
    ELSE g

\* An application writes a part of the shadow only while that is current, and
\* leaves the target to the GPU only while that is, unless it mixes them.
ShadowCurrent == colorIn # "gpu" \/ "mixed" \in workload.calls
GpuCurrent == colorIn # "shadow" \/ "mixed" \in workload.calls

\* The call shows nothing.
Silent == shown' = [b \in Color |-> Undefined]

\* The application gives the parts S the contents v, as OpenGL has it.
Draws(S, v) ==
    /\ drawn' = [b \in Bits |-> IF b \in S THEN v ELSE drawn[b]]
    /\ UNCHANGED workload

-----------------------------------------------------------------------------
\* A new context owes a clear of the color buffer to the value that the bytes
\* of the shadow start with.
Init ==
    /\ pendingMask = Color
    /\ pendingValue = [b \in Bits |-> First]
    /\ shadow = [b \in Color |-> First]
    /\ shadowValid = FALSE
    /\ fill = NoFill
    /\ owedMask = {}
    /\ owedValue = [b \in Bits |-> First]
    /\ batch = {}
    /\ actual = [b \in Bits |-> Undefined]
    /\ encoder = "none"
    /\ nested = FALSE
    /\ shown = [b \in Color |-> Undefined]
    /\ colorIn = "both"
    /\ drawn = [b \in Bits |-> IF b \in Color THEN First ELSE Undefined]
    /\ workload \in Workloads

\* glClear accumulates bits and captures a value per bit.
Owe(mask, v) ==
    /\ pendingMask' = pendingMask \cup mask
    /\ pendingValue' = [b \in Bits |-> IF b \in mask THEN v ELSE pendingValue[b]]
    /\ UNCHANGED graphVars
    /\ Silent

\* applyDefaultFramebufferColorClear without a scissor: a fill is deferred.
FillShadow(mask, v) ==
    IF Color \subseteq mask
    THEN /\ shadowValid' = TRUE
         /\ fill' = v
         /\ colorIn' = "both"
         /\ UNCHANGED shadow
    ELSE UNCHANGED shadowVars

\* Mutant: the accumulation bit is not masked out.
GlClear_KeepsAccum(mask, v) ==
    Owe(mask, v) /\ FillShadow(mask, v) /\ Draws(mask, v)

GlClear(mask, v) ==
    Owe(mask \ {Accum}, v) /\ FillShadow(mask, v) /\ Draws(mask, v)

\* With a scissor the shadow is cleared inside it, while the target still
\* owes a clear of everything.
GlClearScissored(v) ==
    /\ "scissor" \in workload.calls /\ ShadowCurrent
    /\ Owe(Color, v)
    /\ WriteShadow(Filled, Inside, v)
    /\ colorIn' = "shadow"
    /\ Draws(Inside, v)

\* A translated draw that is encoded at once, into an open pass or a new one.
DrawDefault(S) ==
    /\ "draw" \in workload.calls
    /\ LET g == FlushBatch(UploadShadow(EncodePendingWork(Graph)))
       IN  AfterPendingWork([Paint(OpenPass(g), S, Ink) EXCEPT !.encoder = "default"])
    /\ InvalidateShadow
    /\ Draws(S, Ink)
    /\ Silent

\* A translated draw that joins the batch.
DrawDeferred(S) ==
    /\ "deferredDraw" \in workload.calls
    /\ LET g == UploadShadow(EncodePendingWork(Graph))
       IN  AfterPendingWork([g EXCEPT !.batch = @ \cup S])
    /\ InvalidateShadow
    /\ Draws(S, Ink)
    /\ Silent

\* encodeImmediateModeDraw, a pass of its own.
ImmediatePass(g, S) ==
    [Paint(OpenPass(EndRenderPass(g)), S, Ink) EXCEPT !.encoder = "none"]

\* Mutant: the shadow stays valid.
DrawImmediate_KeepsShadow(S) ==
    /\ "immediate" \in workload.calls /\ GpuCurrent
    /\ AfterPendingWork(ImmediatePass(EncodePendingWork(Graph), S))
    /\ UNCHANGED shadowVars
    /\ Draws(S, Ink)
    /\ Silent

\* glBegin ... glEnd drawn by the GPU alone; the shadow is not uploaded.
DrawImmediate(S) ==
    /\ "immediate" \in workload.calls /\ GpuCurrent
    /\ AfterPendingWork(ImmediatePass(EncodePendingWork(Graph), S))
    /\ InvalidateShadow
    /\ Draws(S, Ink)
    /\ Silent

\* A filled rectangle is drawn by the GPU and into a valid shadow.
DrawRect ==
    /\ "mirrored" \in workload.calls
    /\ AfterPendingWork(ImmediatePass(EncodePendingWork(Graph), Inside))
    /\ IF shadowValid THEN WriteShadow(Filled, Inside, Ink) /\ UNCHANGED colorIn
                      ELSE InvalidateShadow
    /\ Draws(Inside, Ink)
    /\ Silent

\* Stippled and logic-op lines too, into a shadow read back from the target
\* when it was not valid.
DrawLines ==
    /\ "mirrored" \in workload.calls
    /\ IF shadowValid
       THEN /\ AfterPendingWork(ImmediatePass(EncodePendingWork(Graph), Inside))
            /\ WriteShadow(Filled, Inside, Ink)
            /\ UNCHANGED colorIn
       ELSE /\ AfterPendingWork(ImmediatePass(Settled, Inside))
            /\ WriteShadow(GpuColor(Settled), Inside, Ink)
            /\ colorIn' = "both"
    /\ Draws(Inside, Ink)
    /\ Silent

\* A draw into a framebuffer object hands on what the default one is owed.
DrawFbo ==
    /\ "fboDraw" \in workload.calls
    /\ AfterPendingWork([FlushBatch(EncodePendingWork(Graph)) EXCEPT !.encoder = "fbo"])
    /\ UNCHANGED <<shadowVars, drawn, workload>>
    /\ Silent

\* glBitmap paints the shadow and writes the region to the target, without
\* encodePendingWork: an owed glClear will be applied over it there.
Bitmap(v) ==
    /\ "bitmap" \in workload.calls /\ ShadowCurrent
    /\ WriteShadow(Filled, Inside, v)
    /\ Becomes(Paint(EndRenderPass(FlushPendingClear(Graph)), Inside, v))
    /\ colorIn' = "shadow"
    /\ Draws(Inside, v)
    /\ UNCHANGED pendingVars
    /\ Silent

\* glDrawPixels and glCopyPixels within the framebuffer: the shadow alone.
WritePixels(v) ==
    /\ "pixels" \in workload.calls /\ ShadowCurrent
    /\ WriteShadow(Filled, Inside, v)
    /\ colorIn' = "shadow"
    /\ Draws(Inside, v)
    /\ UNCHANGED <<pendingVars, graphVars>>
    /\ Silent

\* glAccum(GL_RETURN) sets the whole shadow.
AccumReturn(v) ==
    /\ "accum" \in workload.calls
    /\ WriteShadow(Filled, Color, v)
    /\ colorIn' = "shadow"
    /\ Draws(Color, v)
    /\ UNCHANGED <<pendingVars, graphVars>>
    /\ Silent

\* A blit of pixels into the default framebuffer: the shadow alone, read back
\* first when it was not valid.
BlitToDefault(v) ==
    /\ "blit" \in workload.calls
    /\ IF shadowValid
       THEN WriteShadow(Filled, Inside, v) /\ UNCHANGED <<pendingVars, graphVars>>
       ELSE WriteShadow(GpuColor(Settled), Inside, v) /\ AfterPendingWork(Settled)
    /\ colorIn' = "shadow"
    /\ Draws(Inside, v)
    /\ Silent

\* A multisample resolve of a framebuffer object into the whole target,
\* without encodePendingWork: a glClear of the color must have been handed on.
ResolveToDefault ==
    /\ "resolve" \in workload.calls
    /\ pendingMask \cap Color = {} \/ "mixed" \in workload.calls
    /\ Becomes(Paint(FlushPendingClear(EndRenderPass(Graph)), Color, Ink))
    /\ shadowValid' = FALSE
    /\ fill' = NoFill
    /\ colorIn' = "gpu"
    /\ Draws(Color, Ink)
    /\ UNCHANGED <<pendingVars, shadow>>
    /\ Silent

\* present closes the pass before it flushes what is owed.  What only the
\* shadow has is not presented.
Present ==
    /\ "present" \in workload.calls
    /\ AfterPendingWork(Settled)
    /\ shown' = IF GpuCurrent THEN GpuColor(Settled) ELSE [b \in Color |-> Undefined]
    /\ UNCHANGED <<shadowVars, drawn, workload>>

\* finish closes the pass, too.
Finish ==
    /\ "finish" \in workload.calls
    /\ AfterPendingWork(Settled)
    /\ UNCHANGED <<shadowVars, drawn, workload>>
    /\ Silent

\* glReadPixels of RGBA bytes or of floats: answered from a valid shadow
\* without any GPU work, otherwise from the target.
ReadPixels ==
    /\ "read" \in workload.calls
    /\ IF shadowValid
       THEN shown' = Filled /\ UNCHANGED <<pendingVars, graphVars>>
       ELSE shown' = GpuColor(Settled) /\ AfterPendingWork(Settled)
    /\ shadow' = Filled
    /\ fill' = NoFill
    /\ UNCHANGED <<shadowValid, colorIn, drawn, workload>>

\* In the other formats encodePendingWork and flushForReadback come first; if
\* the shadow answers, what the frame graph is owed stays owed.
ReadConverted ==
    /\ "readOther" \in workload.calls
    /\ IF shadowValid
       THEN shown' = Filled /\ AfterPendingWork(EndRenderPass(EncodePendingWork(Graph)))
       ELSE shown' = GpuColor(Settled) /\ AfterPendingWork(Settled)
    /\ shadow' = Filled
    /\ fill' = NoFill
    /\ UNCHANGED <<shadowValid, colorIn, drawn, workload>>

\* Mutant: the rotation of the command buffer forgets what is owed.
PressureFlush_DropsOwed ==
    /\ "pressure" \in workload.calls
    /\ Becomes([EndRenderPass(Graph) EXCEPT !.owedMask = {}])
    /\ UNCHANGED <<pendingVars, shadowVars, drawn, workload>>
    /\ Silent

\* commitCurrentAsync and invalidateTransientState: what is owed survives.
PressureFlush ==
    /\ "pressure" \in workload.calls
    /\ Becomes(EndRenderPass(Graph))
    /\ UNCHANGED <<pendingVars, shadowVars, drawn, workload>>
    /\ Silent

\* A resize releases the attachments; what is owed survives this, too.
Resize ==
    /\ "resize" \in workload.calls
    /\ LET g == EndRenderPass(Graph) IN
       /\ Becomes([g EXCEPT !.actual = [b \in Bits |-> Undefined]])
       /\ drawn' = [b \in Bits |-> IF b \in pendingMask \cup g.owedMask
                                   THEN drawn[b] ELSE Undefined]
    /\ UNCHANGED <<pendingVars, shadowVars, workload>>
    /\ Silent

-----------------------------------------------------------------------------
Next ==
    \/ \E mask \in workload.masks, v \in Values : GlClear(mask, v)
    \/ \E S \in {Inside, Bits} : DrawDefault(S) \/ DrawDeferred(S) \/ DrawImmediate(S)
    \/ DrawRect \/ DrawLines \/ DrawFbo
    \/ \E v \in Values : \/ GlClearScissored(v) \/ Bitmap(v) \/ WritePixels(v)
                         \/ AccumReturn(v) \/ BlitToDefault(v)
    \/ ResolveToDefault
    \/ Present \/ Finish
    \/ ReadPixels \/ ReadConverted
    \/ PressureFlush \/ Resize

Spec == Init /\ [][Next]_vars

-----------------------------------------------------------------------------
\* Every variable has its type.
TypeOK ==
    /\ pendingMask \subseteq Bits
    /\ pendingValue \in [Bits -> Values]
    /\ shadow \in [Color -> Contents]
    /\ shadowValid \in BOOLEAN
    /\ fill \in Values \cup {NoFill}
    /\ owedMask \subseteq Bits
    /\ owedValue \in [Bits -> Values]
    /\ batch \subseteq Bits
    /\ actual \in [Bits -> Contents]
    /\ encoder \in {"none", "default", "fbo"}
    /\ nested \in BOOLEAN
    /\ shown \in [Color -> Contents]
    /\ colorIn \in {"both", "shadow", "gpu"}
    /\ drawn \in [Bits -> Contents]
    /\ workload \in Workloads

\* "flushPendingClear opens its own encoder on the current CB, and Metal
\* aborts on a second encoder while one is encoding": it never does.
NoNestedEncoder == ~nested

\* What is there once everything owed is done: the color is the shadow's while
\* that is valid; otherwise what is encoded, then what the frame graph owes,
\* then the batch, then what the context owes.
Image ==
    [b \in Bits |->
        IF b \in Color /\ shadowValid THEN Filled[b]
        ELSE IF b \in pendingMask THEN pendingValue[b]
        ELSE IF b \in batch THEN Ink
        ELSE IF b \in owedMask THEN owedValue[b]
        ELSE actual[b]]

\* Every call takes effect and none twice or late: consecutive clears do not
\* overwrite each other, an owed clear survives every rotation of the command
\* buffer and is never applied over later drawing, and neither the shadow nor
\* the target becomes current with old contents.
NothingLost == \A b \in Bits : drawn[b] \in {Undefined, Image[b]}

Framebuffer == INSTANCE DefaultFramebuffer WITH image <- drawn, shown <- shown

\* Neither the deferral nor the shadow can be seen: every read and every
\* present shows exactly what the calls before it have drawn.
ImageSpec == Framebuffer!FbSpec

=============================================================================
