-------------------------- MODULE TextureResidency --------------------------
(***************************************************************************)
(* Where the content of a texture lives.  Every texture has a CPU shadow   *)
(* of each level and a Metal texture.  Uploads go through the shadow into  *)
(* Metal, GPU work writes Metal only, an option drops the shadow of the    *)
(* higher levels, and memory pressure releases the Metal texture of a      *)
(* texture whose shadows are held to be enough to rebuild it.              *)
(*                                                                         *)
(* One colour texture with immutable storage (glTexStorage2D), possibly a  *)
(* view of it, and the thread of its context.  "current" is the content GL *)
(* calls gave a level, including what GPU work on its way will write.      *)
(***************************************************************************)
EXTENDS Naturals

CONSTANTS
    LastLevel,   \* levels 0 .. LastLevel
    Extras,      \* what the run allows beyond what residency survives
    NoTexture    \* metalTexture == nullptr

ASSUME ResidencyAssumption ==
    /\ LastLevel \in Nat
    /\ Extras \subseteq {"upperLeft", "store", "viewDelete", "update",
                      "overtaken", "allocFails", "waitFails"}
    /\ NoTexture \notin [0 .. LastLevel -> {"current", "stale"}]

VARIABLES
    shadow,        \* level -> what levels[l].rgba8 holds; "dropped": mipShadowEvicted
    metal,         \* NoTexture, or level -> what the Metal texture will hold
    inflight,      \* levels that submitted GPU work has still to write
    pending,       \* producerPending.hasAny(kProducerAll)
    rendered,      \* wasFramebufferRenderedTo
    instantiated, evicted,   \* r5PrimaryTextureEvicted
    view,          \* whether a texture view of it exists
    drops          \* textureShadowDropMipLevelsEnabled, fixed at start-up

residencyVars == <<shadow, metal, inflight, pending, rendered, instantiated, evicted,
          view, drops>>

Levels == 0 .. LastLevel

-----------------------------------------------------------------------------
\* The state in two pieces: which shadows there are, and which mirrors are
\* held to be enough.

MirrorsValid == \A l \in Levels : shadow[l] # "dropped"

HardExcluded_Unrendered == view \/ pending

HardExcluded == view \/ pending \/ rendered

Reconstructable == MirrorsValid /\ ~HardExcluded

Outstanding == inflight # {}

\* maybeDropMipLevelShadows, at the end of every rebuild; v: a view depends on
\* the texture, p: GPU writes are pending
Dropped(sh, v, p) ==
    IF drops /\ ~v /\ ~rendered /\ ~p
    THEN [l \in Levels |-> IF l = 0 THEN sh[l] ELSE "dropped"]
    ELSE sh

\* materializeTextureMipShadowFromMetal: the dropped level is read back
Materialized(l, busy) ==
    [shadow EXCEPT ![l] = IF @ # "dropped" THEN @
                          ELSE IF l \in busy THEN "stale" ELSE metal[l]]

AfterDrain_Skipped == {inflight}

\* flushForReadback returns nothing: the bits are cleared even when it gave up
AfterDrain ==
    {IF pending THEN {} ELSE inflight}
        \cup (IF "waitFails" \in Extras THEN {inflight} ELSE {})

\* What the Metal texture will hold when the shadows sh are written into it and
\* GPU work on its way overwrites some levels again.
Overwritten(sh, late) ==
    [l \in Levels |-> CASE sh[l] = "dropped" -> metal[l]
                       [] sh[l] # "dropped" /\ l \in late -> "stale"
                       [] OTHER -> sh[l]]

\* Which levels those are.  Only what draws sample makes an upload wait its turn
\* behind them; an upload that the CPU writes at once is overtaken by every GPU
\* write on its way, busy.
Overtaken(busy) == {{}} \cup (IF "overtaken" \in Extras THEN {busy} ELSE {})

\* replaceMetalTexture with the shadows sh: into the texture there is, level by
\* level, or into a new one.  A rebuild that fails has already cleared the flag.
ReplaceMetalTexture(sh, v, p, busy) ==
    /\ evicted' = FALSE
    /\ \/ /\ metal # NoTexture
          /\ \E late \in Overtaken(busy) : metal' = Overwritten(sh, late)
          /\ instantiated' = TRUE
          /\ shadow' = Dropped(sh, v, p)
       \/ /\ metal = NoTexture
          /\ metal' = sh
          /\ instantiated' = TRUE
          /\ shadow' = Dropped(sh, v, p)
       \/ /\ metal = NoTexture /\ "allocFails" \in Extras
          /\ shadow' = sh
          /\ UNCHANGED <<metal, instantiated>>

\* restoreR5PrimaryTextureIfNeeded; a restore that fails changes nothing
NeedsRestore == evicted /\ metal = NoTexture

RestoredMetal_Always == shadow

RestoredMetal == IF NeedsRestore THEN shadow ELSE metal

RestoredShadow == IF NeedsRestore THEN Dropped(shadow, view, pending) ELSE shadow

Restored ==
    /\ RestoredMetal # NoTexture
    /\ metal' = RestoredMetal
    /\ evicted' = FALSE
    /\ instantiated' = (instantiated \/ NeedsRestore)

-----------------------------------------------------------------------------
ResidencyInit ==
    /\ drops \in BOOLEAN
    /\ shadow = [l \in Levels |-> IF drops /\ l > 0 THEN "dropped" ELSE "current"]
    /\ metal = [l \in Levels |-> "current"]
    /\ inflight = {}
    /\ pending = FALSE
    /\ rendered = FALSE
    /\ view = FALSE
    /\ instantiated = TRUE
    /\ evicted = FALSE

BindTexture ==
    /\ instantiated' = TRUE
    /\ UNCHANGED <<shadow, metal, inflight, pending, rendered, evicted, view, drops>>

\* glTexSubImage2D of level l, of the whole of it or of a part: read-modify-
\* write of the shadow, which is then uploaded with those of the other levels.
\* Only a dropped level is waited for: otherwise GPU writes may be on their way.
TexSubImage(l, whole) ==
    /\ "update" \in Extras \/ \A k \in Levels : shadow[k] = "stale" => k = l /\ whole
    /\ instantiated
    /\ shadow[l] = "dropped" => metal # NoTexture
    /\ \E busy \in IF shadow[l] = "dropped" THEN AfterDrain ELSE {inflight} :
          /\ inflight' = busy
          /\ pending' = (pending /\ shadow[l] # "dropped")
          /\ LET read == Materialized(l, busy)
             IN  ReplaceMetalTexture(IF whole THEN [read EXCEPT ![l] = "current"] ELSE read,
                                     view, pending', busy)
    /\ UNCHANGED <<rendered, view, drops>>

\* glGenerateMipmap: the levels are computed from the shadow of level 0
GenerateMipmap ==
    /\ "update" \in Extras \/ shadow[0] = "current"
    /\ instantiated
    /\ \E busy \in AfterDrain :
          /\ inflight' = busy
          /\ ReplaceMetalTexture([l \in Levels |-> shadow[0]], view, FALSE, busy)
    /\ pending' = TRUE
    /\ UNCHANGED <<rendered, view, drops>>

\* What every GPU write of level l does to the texture.
GpuWrite(l) ==
    /\ Restored
    /\ shadow' = [RestoredShadow EXCEPT ![l] = IF @ = "dropped" THEN @ ELSE "stale"]
    /\ inflight' = inflight \cup {l}
    /\ pending' = TRUE
    /\ UNCHANGED <<view, drops>>

\* A draw with the texture attached to the framebuffer.  What is recorded is
\* that its rows are upside down, which they are not after glClipControl with
\* GL_UPPER_LEFT.
Draw(l) ==
    /\ GpuWrite(l)
    /\ \/ rendered' = TRUE
       \/ "upperLeft" \in Extras /\ UNCHANGED rendered

\* A draw with the view attached: the flag is set on the view, not on its source
ViewDraw(l) == view /\ GpuWrite(l) /\ UNCHANGED rendered

\* An image store of a draw or a dispatch
ImageStore(l) ==
    /\ rendered \/ "store" \in Extras
    /\ GpuWrite(l)
    /\ UNCHANGED rendered

\* A draw that samples the texture waits for what writes it, unless the GPU
\* runs both in order.
Sample ==
    /\ Restored
    /\ shadow' = RestoredShadow
    /\ \/ /\ pending' = FALSE
          /\ \E busy \in AfterDrain : inflight' = busy
       \/ UNCHANGED <<pending, inflight>>
    /\ UNCHANGED <<rendered, view, drops>>

CreateView ==
    /\ ~view
    /\ view' = TRUE
    /\ IF metal = NoTexture
       THEN ReplaceMetalTexture(shadow, TRUE, pending, inflight)
       ELSE UNCHANGED <<shadow, metal, instantiated, evicted>>
    /\ UNCHANGED <<inflight, pending, rendered, drops>>

DeleteView ==
    /\ view
    /\ "viewDelete" \in Extras \/ rendered \/ \A l \in Levels : shadow[l] # "stale"
    /\ view' = FALSE
    /\ UNCHANGED <<shadow, metal, inflight, pending, rendered, instantiated, evicted, drops>>

\* An eviction pass that selects the texture; with work outstanding, it has
\* waited for it.
EvictReconstructablePrimaryTexture ==
    /\ metal # NoTexture
    /\ ~evicted
    /\ Reconstructable
    /\ metal' = NoTexture
    /\ instantiated' = FALSE
    /\ evicted' = TRUE
    /\ inflight' = {}
    /\ UNCHANGED <<shadow, pending, rendered, view, drops>>

\* The GPU, or a call that waits for it without looking at the texture
GpuFinish ==
    /\ Outstanding
    /\ inflight' = {}
    /\ UNCHANGED <<shadow, metal, pending, rendered, instantiated, evicted, view, drops>>

ResidencyNext ==
    \/ BindTexture
    \/ \E l \in Levels, whole \in BOOLEAN : TexSubImage(l, whole)
    \/ GenerateMipmap
    \/ \E l \in Levels : Draw(l) \/ ViewDraw(l) \/ ImageStore(l)
    \/ Sample
    \/ CreateView
    \/ DeleteView
    \/ EvictReconstructablePrimaryTexture
    \/ GpuFinish

ResidencySpec == ResidencyInit /\ [][ResidencyNext]_residencyVars

-----------------------------------------------------------------------------
\* Types
ResidencyTypeOK ==
    /\ shadow \in [Levels -> {"current", "stale", "dropped"}]
    /\ metal \in [Levels -> {"current", "stale"}] \cup {NoTexture}
    /\ inflight \subseteq Levels
    /\ {pending, rendered, instantiated, evicted, view, drops} \subseteq BOOLEAN

\* What a draw samples, a readback reads and a framebuffer continues is what
\* GL calls gave the texture: no upload and no rebuild has put the shadow of
\* an earlier content over it.
MetalCurrent ==
    metal # NoTexture => \A l \in Levels : metal[l] = "current"

\* A texture without its Metal texture can be rebuilt, and the next use does:
\* it is marked, and every level has a shadow with its current content.
Rebuildable ==
    metal = NoTexture => evicted /\ \A l \in Levels : shadow[l] = "current"
=============================================================================
