---------------------------- MODULE TextureProofs ----------------------------
(***************************************************************************)
(* Proofs about textures.                                                  *)
(*                                                                         *)
(* TextureResidency, whatever the number of levels: as long as the         *)
(* application keeps to what residency survives (Extras empty), no upload  *)
(* and no rebuild puts an earlier content over the current one, and every  *)
(* texture that lost its Metal texture can be rebuilt.                     *)
(*                                                                         *)
(* TextureUploadOrder, whatever the number of textures, uploads, commits   *)
(* and buffers in flight: the watermark catches up, and every draw samples *)
(* what was uploaded before it was issued.  The argument is that contents  *)
(* of one texture ascend along everything the GPU has yet to do, and that  *)
(* an upload which does not go through the GPU finds nothing of its        *)
(* texture there.                                                          *)
(***************************************************************************)
EXTENDS TextureResidency, TextureUploadOrder, Integers, WellFoundedInduction, TLAPS

-----------------------------------------------------------------------------
(* Residency.                                                              *)

\* A released texture has all its shadows, whatever the application does.
Mirrored == metal = NoTexture => MirrorsValid

ResidencyTypeInv == ResidencyTypeOK /\ Mirrored

LEMMA LevelZero == Levels \subseteq Nat /\ 0 \in Levels
  BY ResidencyAssumption, SMT DEF Levels

\* Dropping shadows gives shadows.
LEMMA DroppedType ==
    ASSUME NEW sh \in [Levels -> {"current", "stale", "dropped"}], NEW v, NEW p
    PROVE  Dropped(sh, v, p) \in [Levels -> {"current", "stale", "dropped"}]
  BY DEF Dropped

\* Reading a level back gives shadows, and never drops one.
LEMMA MaterializedType ==
    ASSUME ResidencyTypeInv, NEW l \in Levels, NEW busy,
           shadow[l] = "dropped" => metal # NoTexture
    PROVE  /\ Materialized(l, busy) \in [Levels -> {"current", "stale", "dropped"}]
           /\ Materialized(l, busy)[l] # "dropped"
           /\ \A k \in Levels : k # l => Materialized(l, busy)[k] = shadow[k]
<1>1. CASE shadow[l] # "dropped"
  BY <1>1 DEF Materialized, ResidencyTypeInv, ResidencyTypeOK
<1>2. CASE shadow[l] = "dropped"
  <2>1. metal[l] \in {"current", "stale"}
    BY <1>2 DEF ResidencyTypeInv, ResidencyTypeOK
  <2> QED BY <2>1, <1>2 DEF Materialized, ResidencyTypeInv, ResidencyTypeOK
<1> QED BY <1>1, <1>2

\* A rebuild from complete shadows leaves the state well formed.
LEMMA ReplaceType ==
    ASSUME ResidencyTypeInv, NEW sh \in [Levels -> {"current", "stale", "dropped"}],
           NEW v, NEW p, NEW busy, ReplaceMetalTexture(sh, v, p, busy),
           metal = NoTexture => \A l \in Levels : sh[l] # "dropped"
    PROVE  /\ shadow' \in [Levels -> {"current", "stale", "dropped"}]
           /\ metal' \in [Levels -> {"current", "stale"}] \cup {NoTexture}
           /\ instantiated' \in BOOLEAN /\ evicted' \in BOOLEAN
           /\ Mirrored'
<1>1. Dropped(sh, v, p) \in [Levels -> {"current", "stale", "dropped"}]
  BY DroppedType
<1>2. CASE metal # NoTexture
  <2>1. metal \in [Levels -> {"current", "stale"}]
    BY <1>2 DEF ResidencyTypeInv, ResidencyTypeOK
  <2>2. PICK late \in Overtaken(busy) : metal' = Overwritten(sh, late)
    BY <1>2 DEF ReplaceMetalTexture
  <2>3. metal' \in [Levels -> {"current", "stale"}]
    BY <2>1, <2>2 DEF Overwritten
  <2>4. metal' # NoTexture
    BY <2>3, ResidencyAssumption DEF Levels
  <2> QED BY <1>1, <1>2, <2>3, <2>4 DEF ReplaceMetalTexture, Mirrored
<1>3. CASE metal = NoTexture /\ metal' = sh /\ instantiated' = TRUE /\ shadow' = Dropped(sh, v, p)
  <2>1. metal' \in [Levels -> {"current", "stale"}]
    BY <1>3
  <2>2. metal' # NoTexture
    BY <2>1, ResidencyAssumption DEF Levels
  <2> QED BY <1>1, <1>3, <2>1, <2>2 DEF ReplaceMetalTexture, Mirrored
<1>4. CASE metal = NoTexture /\ shadow' = sh /\ UNCHANGED <<metal, instantiated>>
  BY <1>4 DEF ReplaceMetalTexture, Mirrored, MirrorsValid, ResidencyTypeInv, ResidencyTypeOK
<1> QED BY <1>2, <1>3, <1>4 DEF ReplaceMetalTexture

\* So does a restore.
LEMMA RestoredType ==
    ASSUME ResidencyTypeInv, Restored
    PROVE  /\ RestoredShadow \in [Levels -> {"current", "stale", "dropped"}]
           /\ metal' \in [Levels -> {"current", "stale"}]
           /\ metal' # NoTexture
           /\ instantiated' \in BOOLEAN /\ evicted' \in BOOLEAN
<1>1. shadow \in [Levels -> {"current", "stale", "dropped"}]
  BY DEF ResidencyTypeInv, ResidencyTypeOK
<1>2. Dropped(shadow, view, pending) \in [Levels -> {"current", "stale", "dropped"}]
  BY <1>1, DroppedType
<1>3. CASE NeedsRestore
  <2>1. metal' = shadow /\ \A l \in Levels : shadow[l] # "dropped"
    BY <1>3 DEF Restored, RestoredMetal, NeedsRestore, ResidencyTypeInv, Mirrored, MirrorsValid
  <2>2. metal' \in [Levels -> {"current", "stale"}]
    BY <1>1, <2>1
  <2> QED BY <1>2, <1>3, <2>2 DEF Restored, RestoredShadow, ResidencyTypeInv, ResidencyTypeOK
<1>4. CASE ~NeedsRestore
  BY <1>1, <1>4 DEF Restored, RestoredShadow, RestoredMetal, ResidencyTypeInv, ResidencyTypeOK
<1> QED BY <1>3, <1>4

\* Writes of the GPU, and draining them, keep the types.
LEMMA DrainType ==
    ASSUME ResidencyTypeInv, NEW busy \in AfterDrain
    PROVE  busy \subseteq Levels
  BY DEF AfterDrain, ResidencyTypeInv, ResidencyTypeOK

LEMMA GpuWriteType ==
    ASSUME ResidencyTypeInv, NEW l \in Levels, GpuWrite(l), rendered' \in BOOLEAN
    PROVE  ResidencyTypeInv'
<1>1. /\ RestoredShadow \in [Levels -> {"current", "stale", "dropped"}]
      /\ metal' \in [Levels -> {"current", "stale"}]
      /\ metal' # NoTexture
      /\ instantiated' \in BOOLEAN /\ evicted' \in BOOLEAN
  BY RestoredType DEF GpuWrite
<1>2. shadow' \in [Levels -> {"current", "stale", "dropped"}]
  BY <1>1 DEF GpuWrite
<1>3. inflight' \subseteq Levels /\ {pending', view', drops'} \subseteq BOOLEAN
  BY DEF GpuWrite, ResidencyTypeInv, ResidencyTypeOK
<1> QED BY <1>1, <1>2, <1>3 DEF ResidencyTypeInv, ResidencyTypeOK, Mirrored

LEMMA TypeStep == ResidencyTypeInv /\ [ResidencyNext]_residencyVars => ResidencyTypeInv'
<1> SUFFICES ASSUME ResidencyTypeInv, [ResidencyNext]_residencyVars PROVE ResidencyTypeInv'
  OBVIOUS
<1>1. CASE BindTexture
  BY <1>1 DEF BindTexture, ResidencyTypeInv, ResidencyTypeOK, Mirrored, MirrorsValid
<1>2. ASSUME NEW l \in Levels, NEW whole \in BOOLEAN, TexSubImage(l, whole) PROVE ResidencyTypeInv'
  <2>1. PICK busy \in IF shadow[l] = "dropped" THEN AfterDrain ELSE {inflight} :
           /\ inflight' = busy
           /\ pending' = (pending /\ shadow[l] # "dropped")
           /\ LET read == Materialized(l, busy)
              IN  ReplaceMetalTexture(IF whole THEN [read EXCEPT ![l] = "current"] ELSE read,
                                      view, pending', busy)
    BY <1>2 DEF TexSubImage
  <2> DEFINE read == Materialized(l, busy)
             sh == IF whole THEN [read EXCEPT ![l] = "current"] ELSE read
  <2>2. /\ read \in [Levels -> {"current", "stale", "dropped"}]
        /\ read[l] # "dropped"
        /\ \A k \in Levels : k # l => read[k] = shadow[k]
    BY <1>2, MaterializedType DEF TexSubImage
  <2> HIDE DEF read
  <2>3. /\ sh \in [Levels -> {"current", "stale", "dropped"}]
        /\ metal = NoTexture => \A k \in Levels : sh[k] # "dropped"
    BY <2>2 DEF ResidencyTypeInv, Mirrored, MirrorsValid
  <2>4. ReplaceMetalTexture(sh, view, pending', busy)
    BY <2>1 DEF read
  <2> HIDE DEF sh
  <2>5. /\ shadow' \in [Levels -> {"current", "stale", "dropped"}]
        /\ metal' \in [Levels -> {"current", "stale"}] \cup {NoTexture}
        /\ instantiated' \in BOOLEAN /\ evicted' \in BOOLEAN
        /\ Mirrored'
    BY <2>3, <2>4, ReplaceType
  <2>6. inflight' \subseteq Levels
    <3>1. CASE shadow[l] = "dropped" BY <3>1, <2>1, DrainType
    <3>2. CASE shadow[l] # "dropped" BY <3>2, <2>1 DEF ResidencyTypeInv, ResidencyTypeOK
    <3> QED BY <3>1, <3>2
  <2>7. {pending', rendered', view', drops'} \subseteq BOOLEAN
    BY <1>2, <2>1 DEF TexSubImage, ResidencyTypeInv, ResidencyTypeOK
  <2> QED BY <2>5, <2>6, <2>7 DEF ResidencyTypeInv, ResidencyTypeOK
<1>3. CASE GenerateMipmap
  <2> DEFINE sh == [l \in Levels |-> shadow[0]]
  <2>1. /\ sh \in [Levels -> {"current", "stale", "dropped"}]
        /\ metal = NoTexture => \A k \in Levels : sh[k] # "dropped"
    BY LevelZero DEF ResidencyTypeInv, ResidencyTypeOK, Mirrored, MirrorsValid
  <2>2. PICK busy \in AfterDrain :
           inflight' = busy /\ ReplaceMetalTexture(sh, view, FALSE, busy)
    BY <1>3 DEF GenerateMipmap
  <2> HIDE DEF sh
  <2>3. /\ shadow' \in [Levels -> {"current", "stale", "dropped"}]
        /\ metal' \in [Levels -> {"current", "stale"}] \cup {NoTexture}
        /\ instantiated' \in BOOLEAN /\ evicted' \in BOOLEAN
        /\ Mirrored'
    BY <2>1, <2>2, ReplaceType
  <2>4. inflight' \subseteq Levels
    BY <2>2, DrainType
  <2> QED BY <1>3, <2>3, <2>4 DEF GenerateMipmap, ResidencyTypeInv, ResidencyTypeOK
<1>4. ASSUME NEW l \in Levels, Draw(l) \/ ViewDraw(l) \/ ImageStore(l) PROVE ResidencyTypeInv'
  <2>1. GpuWrite(l) /\ rendered' \in BOOLEAN
    BY <1>4 DEF Draw, ViewDraw, ImageStore, ResidencyTypeInv, ResidencyTypeOK
  <2> QED BY <2>1, GpuWriteType
<1>5. CASE Sample
  <2>1. /\ RestoredShadow \in [Levels -> {"current", "stale", "dropped"}]
        /\ metal' \in [Levels -> {"current", "stale"}]
        /\ metal' # NoTexture
        /\ instantiated' \in BOOLEAN /\ evicted' \in BOOLEAN
    BY <1>5, RestoredType DEF Sample
  <2>2. inflight' \subseteq Levels /\ pending' \in BOOLEAN
    BY <1>5, DrainType DEF Sample, ResidencyTypeInv, ResidencyTypeOK
  <2> QED BY <1>5, <2>1, <2>2 DEF Sample, ResidencyTypeInv, ResidencyTypeOK, Mirrored
<1>6. CASE CreateView
  <2>1. CASE metal = NoTexture
    <3>1. ReplaceMetalTexture(shadow, TRUE, pending, inflight)
      BY <1>6, <2>1 DEF CreateView
    <3>2. /\ shadow' \in [Levels -> {"current", "stale", "dropped"}]
          /\ metal' \in [Levels -> {"current", "stale"}] \cup {NoTexture}
          /\ instantiated' \in BOOLEAN /\ evicted' \in BOOLEAN
          /\ Mirrored'
      BY <3>1, ReplaceType DEF ResidencyTypeInv, ResidencyTypeOK, Mirrored, MirrorsValid
    <3> QED BY <1>6, <3>2 DEF CreateView, ResidencyTypeInv, ResidencyTypeOK
  <2>2. CASE metal # NoTexture
    BY <1>6, <2>2 DEF CreateView, ResidencyTypeInv, ResidencyTypeOK, Mirrored, MirrorsValid
  <2> QED BY <2>1, <2>2
<1>7. CASE DeleteView
  BY <1>7 DEF DeleteView, ResidencyTypeInv, ResidencyTypeOK, Mirrored, MirrorsValid
<1>8. CASE EvictReconstructablePrimaryTexture
  BY <1>8 DEF EvictReconstructablePrimaryTexture, Reconstructable, ResidencyTypeInv, ResidencyTypeOK,
              Mirrored, MirrorsValid
<1>9. CASE GpuFinish
  BY <1>9 DEF GpuFinish, ResidencyTypeInv, ResidencyTypeOK, Mirrored, MirrorsValid
<1>10. CASE UNCHANGED residencyVars
  BY <1>10 DEF residencyVars, ResidencyTypeInv, ResidencyTypeOK, Mirrored, MirrorsValid
<1> QED BY <1>1, <1>2, <1>3, <1>4, <1>5, <1>6, <1>7, <1>8, <1>9, <1>10 DEF ResidencyNext

LEMMA TypeInit == ResidencyInit => ResidencyTypeInv
<1> SUFFICES ASSUME ResidencyInit PROVE ResidencyTypeInv
  OBVIOUS
<1>1. metal \in [Levels -> {"current", "stale"}]
  BY DEF ResidencyInit
<1>2. metal # NoTexture
  BY <1>1, ResidencyAssumption DEF Levels
<1> QED BY <1>1, <1>2 DEF ResidencyInit, ResidencyTypeInv, ResidencyTypeOK, Mirrored

\* Types, whatever the application does and whatever fails.
THEOREM TypeCorrect == ResidencySpec => []ResidencyTypeOK
<1>1. ResidencyTypeInv => ResidencyTypeOK
  BY DEF ResidencyTypeInv
<1> QED BY TypeInit, TypeStep, <1>1, PTL DEF ResidencySpec

-----------------------------------------------------------------------------
(* The content.  Within what residency survives, a shadow that has fallen  *)
(* behind belongs to a texture that eviction passes by.                    *)

StaleExcluded ==
    (\E l \in Levels : shadow[l] = "stale") => view \/ rendered

ResidencyInv ==
    /\ ResidencyTypeInv
    /\ MetalCurrent
    /\ Rebuildable
    /\ Outstanding => pending
    /\ StaleExcluded

\* A wait that does not give up leaves nothing on its way.
LEMMA Drained ==
    ASSUME ResidencyInv, Extras = {}, NEW busy \in AfterDrain
    PROVE  busy = {}
  BY DEF AfterDrain, ResidencyInv, Outstanding

\* A rebuild from shadows none of which is behind gives current content.
LEMMA ReplaceCurrent ==
    ASSUME ResidencyInv, Extras = {},
           NEW sh \in [Levels -> {"current", "stale", "dropped"}],
           NEW v, NEW p, NEW busy, ReplaceMetalTexture(sh, v, p, busy),
           \A l \in Levels : sh[l] # "stale",
           metal = NoTexture => \A l \in Levels : sh[l] = "current"
    PROVE  /\ metal' # NoTexture => \A l \in Levels : metal'[l] = "current"
           /\ metal' # NoTexture
           /\ \A l \in Levels : shadow'[l] # "stale"
<1>1. \A l \in Levels : Dropped(sh, v, p)[l] # "stale"
  BY DEF Dropped
<1>2. CASE metal # NoTexture
  <2>1. metal \in [Levels -> {"current", "stale"}] /\ \A l \in Levels : metal[l] = "current"
    BY <1>2 DEF ResidencyInv, ResidencyTypeInv, ResidencyTypeOK, MetalCurrent
  <2>2. metal' = Overwritten(sh, {})
    BY <1>2 DEF ReplaceMetalTexture, Overtaken
  <2>3. \A l \in Levels : metal'[l] = "current"
    BY <2>1, <2>2 DEF Overwritten
  <2>4. metal' \in [Levels -> {"current", "stale"}]
    BY <2>1, <2>2 DEF Overwritten
  <2>5. metal' # NoTexture
    BY <2>4, ResidencyAssumption DEF Levels
  <2> QED BY <1>1, <1>2, <2>3, <2>5 DEF ReplaceMetalTexture
<1>3. CASE metal = NoTexture
  <2>1. metal' = sh /\ shadow' = Dropped(sh, v, p)
    BY <1>3 DEF ReplaceMetalTexture
  <2>2. sh \in [Levels -> {"current", "stale"}]
    BY <1>3
  <2>3. sh # NoTexture
    BY <2>2, ResidencyAssumption DEF Levels
  <2> QED BY <1>1, <1>3, <2>1, <2>3
<1> QED BY <1>2, <1>3

\* A restore puts back current content, and changes no shadow that is behind.
LEMMA RestoredCurrent ==
    ASSUME ResidencyInv, Restored
    PROVE  /\ metal' # NoTexture
           /\ \A l \in Levels : metal'[l] = "current"
           /\ \A l \in Levels : RestoredShadow[l] = "stale" => shadow[l] = "stale"
<1>1. CASE NeedsRestore
  <2>1. \A l \in Levels : shadow[l] = "current"
    BY <1>1 DEF ResidencyInv, Rebuildable, NeedsRestore
  <2>2. \A l \in Levels : RestoredShadow[l] # "stale"
    BY <1>1, <2>1 DEF RestoredShadow, Dropped
  <2> QED BY <1>1, <2>1, <2>2 DEF Restored, RestoredMetal
<1>2. CASE ~NeedsRestore
  BY <1>2 DEF Restored, RestoredMetal, RestoredShadow, ResidencyInv, MetalCurrent
<1> QED BY <1>1, <1>2

LEMMA GpuWriteCurrent ==
    ASSUME ResidencyInv, NEW l \in Levels, GpuWrite(l), view \/ rendered'
    PROVE  /\ MetalCurrent' /\ Rebuildable'
           /\ (Outstanding => pending)' /\ StaleExcluded'
<1>1. metal' # NoTexture /\ \A k \in Levels : metal'[k] = "current"
  BY RestoredCurrent DEF GpuWrite
<1>2. pending' /\ view' = view
  BY DEF GpuWrite
<1> QED BY <1>1, <1>2 DEF MetalCurrent, Rebuildable, StaleExcluded

LEMMA ContentStep == Extras = {} /\ ResidencyInv /\ [ResidencyNext]_residencyVars => ResidencyInv'
<1> SUFFICES ASSUME Extras = {}, ResidencyInv, [ResidencyNext]_residencyVars PROVE ResidencyInv'
  OBVIOUS
<1>0. ResidencyTypeInv'
  BY TypeStep DEF ResidencyInv
<1> DEFINE Rest == /\ MetalCurrent' /\ Rebuildable'
                   /\ (Outstanding => pending)' /\ StaleExcluded'
<1> SUFFICES Rest
  BY <1>0 DEF ResidencyInv
<1>1. CASE BindTexture
  BY <1>1 DEF BindTexture, ResidencyInv, MetalCurrent, Rebuildable, Outstanding, StaleExcluded
<1>2. ASSUME NEW l \in Levels, NEW whole \in BOOLEAN, TexSubImage(l, whole) PROVE Rest
  <2>1. PICK busy \in IF shadow[l] = "dropped" THEN AfterDrain ELSE {inflight} :
           /\ inflight' = busy
           /\ pending' = (pending /\ shadow[l] # "dropped")
           /\ LET read == Materialized(l, busy)
              IN  ReplaceMetalTexture(IF whole THEN [read EXCEPT ![l] = "current"] ELSE read,
                                      view, pending', busy)
    BY <1>2 DEF TexSubImage
  <2> DEFINE read == Materialized(l, busy)
             sh == IF whole THEN [read EXCEPT ![l] = "current"] ELSE read
  <2>2. /\ read \in [Levels -> {"current", "stale", "dropped"}]
        /\ read[l] # "dropped"
        /\ \A k \in Levels : k # l => read[k] = shadow[k]
    BY <1>2, MaterializedType DEF TexSubImage, ResidencyInv
  <2>3. \A k \in Levels : shadow[k] = "stale" => k = l /\ whole
    BY <1>2 DEF TexSubImage
  <2>4. ~whole => read[l] = "current"
    <3>1. CASE shadow[l] = "dropped"
      <4>1. busy = {} /\ metal[l] = "current"
        BY <3>1, <2>1, <1>2, Drained DEF TexSubImage, ResidencyInv, MetalCurrent
      <4> QED BY <3>1, <4>1 DEF Materialized, ResidencyInv, ResidencyTypeInv, ResidencyTypeOK
    <3>2. CASE shadow[l] # "dropped"
      BY <3>2, <2>3 DEF Materialized, ResidencyInv, ResidencyTypeInv, ResidencyTypeOK
    <3> QED BY <3>1, <3>2
  <2>5. metal = NoTexture => \A k \in Levels : shadow[k] = "current"
    BY DEF ResidencyInv, Rebuildable
  <2> HIDE DEF read
  <2>6. /\ sh \in [Levels -> {"current", "stale", "dropped"}]
        /\ \A k \in Levels : sh[k] # "stale"
        /\ metal = NoTexture => \A k \in Levels : sh[k] = "current"
    <3>1. sh \in [Levels -> {"current", "stale", "dropped"}]
      BY <2>2
    <3>2. sh[l] = "current"
      BY <2>2, <2>4
    <3>3. \A k \in Levels : k # l => sh[k] = shadow[k] /\ shadow[k] # "stale"
      BY <2>2, <2>3
    <3> HIDE DEF sh
    <3> QED BY <3>1, <3>2, <3>3, <2>5
  <2>7. ReplaceMetalTexture(sh, view, pending', busy)
    BY <2>1 DEF read
  <2> HIDE DEF sh
  <2>8. /\ metal' # NoTexture /\ \A k \in Levels : metal'[k] = "current"
        /\ \A k \in Levels : shadow'[k] # "stale"
    BY <2>6, <2>7, ReplaceCurrent
  <2>9. (Outstanding => pending)'
    <3>1. CASE shadow[l] = "dropped"
      BY <3>1, <2>1, Drained DEF Outstanding
    <3>2. CASE shadow[l] # "dropped"
      BY <3>2, <2>1 DEF Outstanding, ResidencyInv
    <3> QED BY <3>1, <3>2
  <2> QED BY <2>8, <2>9 DEF MetalCurrent, Rebuildable, StaleExcluded
<1>3. CASE GenerateMipmap
  <2> DEFINE sh == [l \in Levels |-> shadow[0]]
  <2>1. shadow[0] = "current"
    BY <1>3 DEF GenerateMipmap
  <2>2. /\ sh \in [Levels -> {"current", "stale", "dropped"}]
        /\ \A l \in Levels : sh[l] = "current"
    BY <2>1
  <2>3. PICK busy \in AfterDrain : ReplaceMetalTexture(sh, view, FALSE, busy)
    BY <1>3 DEF GenerateMipmap
  <2> HIDE DEF sh
  <2>4. /\ metal' # NoTexture /\ \A k \in Levels : metal'[k] = "current"
        /\ \A k \in Levels : shadow'[k] # "stale"
    BY <2>2, <2>3, ReplaceCurrent
  <2>5. pending'
    BY <1>3 DEF GenerateMipmap
  <2> QED BY <2>4, <2>5 DEF MetalCurrent, Rebuildable, StaleExcluded
<1>4. ASSUME NEW l \in Levels, Draw(l) \/ ViewDraw(l) \/ ImageStore(l) PROVE Rest
  <2>1. GpuWrite(l) /\ (view \/ rendered')
    BY <1>4 DEF Draw, ViewDraw, ImageStore
  <2> QED BY <2>1, GpuWriteCurrent
<1>5. CASE Sample
  <2>1. /\ metal' # NoTexture /\ \A l \in Levels : metal'[l] = "current"
        /\ \A l \in Levels : shadow'[l] = "stale" => shadow[l] = "stale"
    BY <1>5, RestoredCurrent DEF Sample
  <2>2. (Outstanding => pending)'
    <3>1. CASE UNCHANGED <<pending, inflight>>
      BY <3>1 DEF Outstanding, ResidencyInv
    <3>2. CASE \E busy \in AfterDrain : inflight' = busy
      BY <3>2, Drained DEF Outstanding
    <3> QED BY <1>5, <3>1, <3>2 DEF Sample
  <2> QED BY <1>5, <2>1, <2>2 DEF Sample, ResidencyInv, MetalCurrent, Rebuildable, StaleExcluded
<1>6. CASE CreateView
  <2>1. CASE metal = NoTexture
    <3>1. ReplaceMetalTexture(shadow, TRUE, pending, inflight)
      BY <1>6, <2>1 DEF CreateView
    <3>2. shadow \in [Levels -> {"current", "stale", "dropped"}]
          /\ \A l \in Levels : shadow[l] = "current"
      BY <2>1 DEF ResidencyInv, ResidencyTypeInv, ResidencyTypeOK, Rebuildable
    <3>3. /\ metal' # NoTexture /\ \A l \in Levels : metal'[l] = "current"
          /\ \A l \in Levels : shadow'[l] # "stale"
      BY <3>1, <3>2, ReplaceCurrent
    <3> QED BY <1>6, <3>3 DEF CreateView, ResidencyInv, Outstanding, MetalCurrent, Rebuildable, StaleExcluded
  <2>2. CASE metal # NoTexture
    BY <1>6, <2>2 DEF CreateView, ResidencyInv, Outstanding, MetalCurrent, Rebuildable, StaleExcluded
  <2> QED BY <2>1, <2>2
<1>7. CASE DeleteView
  BY <1>7 DEF DeleteView, ResidencyInv, Outstanding, MetalCurrent, Rebuildable, StaleExcluded
<1>8. CASE EvictReconstructablePrimaryTexture
  <2>1. \A l \in Levels : shadow[l] = "current"
    BY <1>8 DEF EvictReconstructablePrimaryTexture, Reconstructable, HardExcluded,
                MirrorsValid, ResidencyInv, ResidencyTypeInv, ResidencyTypeOK, StaleExcluded
  <2> QED BY <1>8, <2>1 DEF EvictReconstructablePrimaryTexture, ResidencyInv, Outstanding,
                MetalCurrent, Rebuildable, StaleExcluded
<1>9. CASE GpuFinish
  BY <1>9 DEF GpuFinish, ResidencyInv, Outstanding, MetalCurrent, Rebuildable, StaleExcluded
<1>10. CASE UNCHANGED residencyVars
  BY <1>10 DEF residencyVars, ResidencyInv, Outstanding, MetalCurrent, Rebuildable, StaleExcluded
<1> QED
  BY <1>1, <1>2, <1>3, <1>4, <1>5, <1>6, <1>7, <1>8, <1>9, <1>10 DEF ResidencyNext, ResidencyInv

LEMMA ContentInit == ResidencyInit => ResidencyInv
<1> SUFFICES ASSUME ResidencyInit PROVE ResidencyInv
  OBVIOUS
<1>1. \A l \in Levels : metal[l] = "current" /\ shadow[l] # "stale"
  BY DEF ResidencyInit
<1>2. ResidencyTypeInv /\ inflight = {}
  BY TypeInit DEF ResidencyInit
<1>3. metal \in [Levels -> {"current", "stale"}]
  BY DEF ResidencyInit
<1>4. metal # NoTexture
  BY <1>3, ResidencyAssumption DEF Levels
<1> QED BY <1>1, <1>2, <1>4 DEF ResidencyInv, Outstanding, MetalCurrent, Rebuildable, StaleExcluded

\* Within what residency survives, the Metal texture always has, or is about
\* to have, the content GL calls gave the texture: as long as no upload is written
\* by the CPU under GPU writes that are on their way, no upload meets shadows of
\* other levels that are behind, every wait and every allocation succeeds, and
\* what the GPU writes leaves its mark (Extras).
THEOREM ContentNeverStale == ASSUME Extras = {} PROVE ResidencySpec => []MetalCurrent
<1>1. ResidencyInv /\ [ResidencyNext]_residencyVars => ResidencyInv'
  BY ContentStep
<1>2. ResidencyInv => MetalCurrent
  BY DEF ResidencyInv
<1> QED BY ContentInit, <1>1, <1>2, PTL DEF ResidencySpec

\* Within the same, a texture is never released while a shadow of it is
\* missing or behind.
THEOREM EvictionRecoverable == ASSUME Extras = {} PROVE ResidencySpec => []Rebuildable
<1>1. ResidencyInv /\ [ResidencyNext]_residencyVars => ResidencyInv'
  BY ContentStep
<1>2. ResidencyInv => Rebuildable
  BY DEF ResidencyInv
<1> QED BY ContentInit, <1>1, <1>2, PTL DEF ResidencySpec

-----------------------------------------------------------------------------
(* The order of uploads and draws: types and sequence numbers.             *)

\* The numbers of the buffers on their way ascend, above those of the finished
\* ones; the last number given out is accounted for.
Numbered ==
    /\ \A k \in 1..Len(queue) : queue[k].seq # 0 =>
          /\ completed < queue[k].seq
          /\ queue[k].seq <= commitSeq
          /\ \A h \in handlers : h < queue[k].seq
    /\ \A k, m \in 1..Len(queue) :
          k < m /\ queue[k].seq # 0 /\ queue[m].seq # 0
              => queue[k].seq < queue[m].seq
    /\ \A h \in handlers : h <= commitSeq
    /\ \/ commitSeq = completed
       \/ commitSeq \in handlers
       \/ \E k \in 1..Len(queue) : queue[k].seq = commitSeq

NumberedInv == UploadTypeOK /\ Numbered

Committed == [seq : 0..MaxCommits, commands : Seq(Command)]

\* The bounds are natural numbers.
LEMMA UploadBounds ==
    MaxUploads \in Nat /\ MaxCommits \in Nat /\ MaxPending \in Nat /\ MaxOpen \in Nat
  BY UploadAssumption

\* A commit appends a buffer.
LEMMA AppendCommitted ==
    ASSUME NEW q \in Seq(Committed), NEW n \in 0..MaxCommits, NEW s \in Seq(Command),
           NEW r, r = Append(q, [seq |-> n, commands |-> s])
    PROVE  /\ r \in Seq(Committed)
           /\ Len(r) = Len(q) + 1
           /\ Len(q) \in Nat
           /\ \A k \in 1..Len(q) : r[k] = q[k]
           /\ r[Len(q) + 1].seq = n
           /\ r[Len(q) + 1].commands = s
<1>1. [seq |-> n, commands |-> s] \in Committed
  BY DEF Committed
<1> QED
  BY <1>1

\* The GPU takes the head of the queue.
LEMMA TailCommitted ==
    ASSUME NEW q \in Seq(Committed), q # <<>>
    PROVE  /\ Tail(q) \in Seq(Committed)
           /\ Len(q) \in Nat \ {0}
           /\ Len(Tail(q)) = Len(q) - 1
           /\ \A k \in 1..Len(Tail(q)) : k + 1 \in 1..Len(q) /\ Tail(q)[k] = q[k + 1]
           /\ Head(q) = q[1]
           /\ Head(q) \in Committed
  OBVIOUS

\* A command appended to the open buffer.
LEMMA AppendCommand ==
    ASSUME NEW s \in Seq(Command), NEW c \in Command
    PROVE  /\ Append(s, c) \in Seq(Command)
           /\ Len(s) \in Nat
           /\ Len(Append(s, c)) = Len(s) + 1
           /\ \A i \in 1..Len(s) : Append(s, c)[i] = s[i]
           /\ Append(s, c)[Len(s) + 1] = c
  OBVIOUS

LEMMA CommandType ==
    ASSUME NEW t \in Textures, NEW c \in 0..MaxUploads
    PROVE  Read(t, c) \in Command /\ Blit(t, c) \in Command
  BY DEF Read, Blit, Command

\* A commit takes the next number, which nobody has had.
LEMMA NumberedCommit ==
    ASSUME NumberedInv, commitSeq < MaxCommits,
           commitSeq' = commitSeq + 1,
           NEW s \in Seq(Command),
           queue' = Append(queue, [seq |-> commitSeq + 1, commands |-> s]),
           UNCHANGED <<completed, handlers>>
    PROVE  Numbered' /\ queue' \in Seq(Committed) /\ commitSeq' \in 0..MaxCommits
<1>1. commitSeq \in Nat /\ commitSeq + 1 \in 0..MaxCommits
  BY UploadBounds DEF NumberedInv, UploadTypeOK
<1>2. queue \in Seq(Committed)
  BY DEF NumberedInv, UploadTypeOK, Committed
<1>3. /\ queue' \in Seq(Committed)
      /\ Len(queue') = Len(queue) + 1 /\ Len(queue) \in Nat
      /\ \A k \in 1..Len(queue) : queue'[k] = queue[k]
      /\ queue'[Len(queue) + 1].seq = commitSeq + 1
  BY <1>1, <1>2, AppendCommitted
<1>4. completed \in Nat /\ completed <= commitSeq /\ handlers \subseteq 1..MaxCommits
  BY <1>1 DEF NumberedInv, UploadTypeOK
<1>5. \A k \in 1..Len(queue') :
         \/ k \in 1..Len(queue) /\ queue'[k] = queue[k] /\ queue[k].seq \in Nat
         \/ k = Len(queue) + 1 /\ queue'[k].seq = commitSeq + 1
  <2>1. \A k \in 1..Len(queue) : queue[k] \in Committed
    BY <1>2
  <2> QED
    BY <1>3, <2>1, UploadBounds DEF Committed
<1>6. \A k \in 1..Len(queue') : queue'[k].seq # 0 =>
          /\ completed' < queue'[k].seq
          /\ queue'[k].seq <= commitSeq'
          /\ \A h \in handlers' : h < queue'[k].seq
  <2> SUFFICES ASSUME NEW k \in 1..Len(queue'), queue'[k].seq # 0
               PROVE  /\ completed < queue'[k].seq
                      /\ queue'[k].seq <= commitSeq + 1
                      /\ \A h \in handlers : h < queue'[k].seq
    OBVIOUS
  <2>1. \A h \in handlers : h \in Nat /\ h <= commitSeq
    BY <1>4, UploadBounds DEF NumberedInv, Numbered
  <2>2. CASE k \in 1..Len(queue) /\ queue'[k] = queue[k] /\ queue[k].seq \in Nat
    BY <2>2, <1>1 DEF NumberedInv, Numbered
  <2>3. CASE k = Len(queue) + 1 /\ queue'[k].seq = commitSeq + 1
    BY <2>1, <2>3, <1>1, <1>4
  <2> QED
    BY <1>5, <2>2, <2>3
<1>7. \A k, m \in 1..Len(queue') :
          k < m /\ queue'[k].seq # 0 /\ queue'[m].seq # 0
              => queue'[k].seq < queue'[m].seq
  BY <1>1, <1>3, <1>5 DEF NumberedInv, Numbered
<1>8. \A h \in handlers' : h <= commitSeq'
  BY <1>1, <1>4, UploadBounds DEF NumberedInv, Numbered
<1>9. \E k \in 1..Len(queue') : queue'[k].seq = commitSeq'
  BY <1>3
<1> QED
  BY <1>1, <1>3, <1>6, <1>7, <1>8, <1>9 DEF Numbered

\* A buffer committed plainly has no number.
LEMMA NumberedPlain ==
    ASSUME NumberedInv, NEW s \in Seq(Command), PlainCommit(s),
           UNCHANGED <<completed, handlers, commitSeq>>
    PROVE  Numbered' /\ queue' \in Seq(Committed)
<1>1. queue \in Seq(Committed)
  BY DEF NumberedInv, UploadTypeOK, Committed
<1>2. 0 \in 0..MaxCommits
  BY UploadBounds
<1>3. queue' = Append(queue, [seq |-> 0, commands |-> s])
  BY DEF PlainCommit
<1>4. /\ queue' \in Seq(Committed)
      /\ Len(queue') = Len(queue) + 1 /\ Len(queue) \in Nat
      /\ \A k \in 1..Len(queue) : queue'[k] = queue[k]
      /\ queue'[Len(queue) + 1].seq = 0
  BY <1>1, <1>2, <1>3, AppendCommitted
<1>5. \A k \in 1..Len(queue') : queue'[k].seq # 0 =>
         k \in 1..Len(queue) /\ queue'[k] = queue[k]
  <2>1. \A k \in 1..Len(queue') : k \in 1..Len(queue) \/ k = Len(queue) + 1
    BY <1>4
  <2> QED
    BY <1>4, <2>1
<1>6. \A k \in 1..Len(queue) : k \in 1..Len(queue') /\ queue'[k] = queue[k]
  BY <1>4
<1>7. /\ \A k \in 1..Len(queue') : queue'[k].seq # 0 =>
          /\ completed' < queue'[k].seq
          /\ queue'[k].seq <= commitSeq'
          /\ \A h \in handlers' : h < queue'[k].seq
      /\ \A k, m \in 1..Len(queue') :
          k < m /\ queue'[k].seq # 0 /\ queue'[m].seq # 0
              => queue'[k].seq < queue'[m].seq
  BY <1>5 DEF NumberedInv, Numbered
<1>8. /\ \A h \in handlers' : h <= commitSeq'
      /\ \/ commitSeq' = completed'
         \/ commitSeq' \in handlers'
         \/ \E k \in 1..Len(queue') : queue'[k].seq = commitSeq'
  BY <1>6 DEF NumberedInv, Numbered
<1> QED
  BY <1>4, <1>7, <1>8 DEF Numbered

\* A nonempty set of places in a sequence has a last one.
LEMMA LastPlace ==
    ASSUME NEW n \in Nat, NEW S \in SUBSET (1..n), S # {}
    PROVE  Max(S) \in S /\ \A k \in S : k <= Max(S)
<1> DEFINE T == {n - k : k \in S}
<1>1. T \subseteq Nat /\ T # {}
  <2>1. \A k \in S : k \in 1..n
    OBVIOUS
  <2>2. \A k \in S : n - k \in Nat
    BY <2>1
  <2>3. T \subseteq Nat
    BY <2>2
  <2> QED
    BY <2>3, Zenon
<1>2. PICK R : /\ IsWellFoundedOn(R, Nat)
               /\ \A x, y \in Nat : y < x => <<y, x>> \in R
  <2>1. \A x, y \in Nat : y < x => <<y, x>> \in OpToRel(<, Nat)
    BY DEF OpToRel
  <2> QED
    BY <2>1, NatLessThanWellFounded, Zenon
<1>3. PICK x \in T : \A y \in T : x <= y
  <2> HIDE DEF T
  <2>1. PICK x \in T : \A y \in T : ~ (<<y, x>> \in R)
    BY <1>1, <1>2, WFMin, Zenon
  <2>2. ASSUME NEW y \in T PROVE x <= y
    <3>1. x \in Nat /\ y \in Nat
      BY <1>1
    <3>2. ~ (y < x)
      BY <1>2, <2>1, <3>1, Zenon
    <3> QED
      BY <3>1, <3>2
  <2> QED
    BY <2>2
<1>4. PICK m \in S : x = n - m
  OBVIOUS
<1>5. \A k \in S : m >= k
  <2> TAKE k \in S
  <2>1. x <= n - k
    BY <1>3
  <2> QED
    BY <1>4, <2>1
<1> QED
  BY <1>5 DEF Max

\* After takes the last blit of the texture, if there is one.
LEMMA AfterMeaning ==
    ASSUME NEW s \in Seq(Command), NEW t, NEW c
    PROVE  \/ /\ After(s, t, c) = c
              /\ \A i \in 1..Len(s) : ~ (s[i].op = "blit" /\ s[i].tex = t)
           \/ \E m \in 1..Len(s) :
                /\ s[m].op = "blit" /\ s[m].tex = t
                /\ After(s, t, c) = s[m].contents
                /\ \A i \in 1..Len(s) :
                      s[i].op = "blit" /\ s[i].tex = t => i <= m
<1> DEFINE blits == {i \in 1..Len(s) : s[i].op = "blit" /\ s[i].tex = t}
<1>1. CASE blits = {}
  BY <1>1 DEF After
<1>2. CASE blits # {}
  <2>1. blits \in SUBSET (1..Len(s)) /\ Len(s) \in Nat
    OBVIOUS
  <2>2. Max(blits) \in blits /\ \A k \in blits : k <= Max(blits)
    <3> HIDE DEF blits
    <3> QED
      BY <1>2, <2>1, LastPlace
  <2>3. After(s, t, c) = s[Max(blits)].contents
    BY <1>2 DEF After
  <2> QED
    BY <2>2, <2>3
<1> QED
  BY <1>1, <1>2

LEMMA AfterType ==
    ASSUME NEW s \in Seq(Command), NEW t, NEW c \in 0..MaxUploads
    PROVE  After(s, t, c) \in 0..MaxUploads
<1>1. \A m \in 1..Len(s) : s[m] \in Command
  OBVIOUS
<1>2. \A m \in 1..Len(s) : s[m].contents \in 0..MaxUploads
  BY <1>1 DEF Command
<1> QED
  BY <1>2, AfterMeaning

\* The initial state.
LEMMA NumberedInit == UploadInit => NumberedInv
<1> SUFFICES ASSUME UploadInit PROVE NumberedInv
  OBVIOUS
<1>1. UploadTypeOK
  <2>1. /\ memory \in [Textures -> 0..MaxUploads]
        /\ lastRead \in [Textures -> 0..commitSeq]
        /\ latest \in [Textures -> 0..uploads]
    BY UploadBounds DEF UploadInit
  <2>2. queue \in Seq([seq : 0..MaxCommits, commands : Seq(Command)])
        /\ open \in Seq(Command)
    BY DEF UploadInit
  <2>3. /\ commitSeq \in 0..MaxCommits /\ completed \in 0..commitSeq
        /\ uploads \in 0..MaxUploads
    BY UploadBounds DEF UploadInit
  <2> QED
    BY <2>1, <2>2, <2>3 DEF UploadInit, UploadTypeOK
<1>2. Numbered
  BY DEF UploadInit, Numbered
<1> QED
  BY <1>1, <1>2 DEF NumberedInv

\* Folding keeps the marks' types.
LEMMA FoldType ==
    ASSUME NumberedInv, NEW n \in Nat, Fold(readSet, n), n <= commitSeq',
           commitSeq' \in Nat, commitSeq <= commitSeq'
    PROVE  /\ lastRead' \in [Textures -> 0..commitSeq']
           /\ readSet' \subseteq Textures
           /\ owned' \in BOOLEAN
<1>1. commitSeq \in Nat
  BY UploadBounds DEF NumberedInv, UploadTypeOK
<1>2. \A t \in Textures : (IF t \in readSet THEN n ELSE lastRead[t]) \in 0..commitSeq'
  BY <1>1 DEF NumberedInv, UploadTypeOK
<1>3. lastRead' \in [Textures -> 0..commitSeq']
  BY <1>2 DEF Fold
<1>4. owned' \in BOOLEAN
  <2>1. owned' = (owned /\ readSet = {})
    BY DEF Fold
  <2>2. CASE readSet = {}
    BY <2>1, <2>2 DEF NumberedInv, UploadTypeOK
  <2>3. CASE readSet # {}
    BY <2>1, <2>3
  <2> QED
    BY <2>2, <2>3
<1> QED
  BY <1>3, <1>4 DEF Fold

\* A draw.
LEMMA NumberedDraw ==
    ASSUME NumberedInv, NEW t \in Textures, NEW path, DrawSampling(t, path)
    PROVE  NumberedInv'
<1>1. open' \in Seq(Command)
  <2>1. latest[t] \in 0..MaxUploads /\ open \in Seq(Command)
    BY UploadBounds DEF NumberedInv, UploadTypeOK
  <2> QED
    BY <2>1, CommandType, AppendCommand DEF DrawSampling
<1>2. readSet' \subseteq Textures /\ owned' \in BOOLEAN
  BY DEF NumberedInv, UploadTypeOK, DrawSampling, Note
<1>3. UploadTypeOK'
  BY <1>1, <1>2 DEF NumberedInv, UploadTypeOK, DrawSampling
<1>4. Numbered'
  BY DEF NumberedInv, Numbered, DrawSampling
<1> QED
  BY <1>3, <1>4 DEF NumberedInv

LEMMA NumberedDrawRotated ==
    ASSUME NumberedInv, NEW t \in Textures, DrawRotated(t)
    PROVE  NumberedInv'
<1>1. Numbered' /\ queue' \in Seq(Committed) /\ commitSeq' \in 0..MaxCommits
  <2>1. open \in Seq(Command)
    BY DEF NumberedInv, UploadTypeOK
  <2> QED
    BY <2>1, NumberedCommit DEF DrawRotated
<1>2. open' \in Seq(Command)
  <2>1. latest[t] \in 0..MaxUploads
    BY UploadBounds DEF NumberedInv, UploadTypeOK
  <2>2. Read(t, latest[t]) \in Command
    BY <2>1, CommandType
  <2> QED
    BY <2>2 DEF DrawRotated
<1>3. commitSeq \in Nat /\ commitSeq' = commitSeq + 1
  BY UploadBounds DEF NumberedInv, UploadTypeOK, DrawRotated
<1>4. lastRead' \in [Textures -> 0..commitSeq']
  BY <1>3 DEF NumberedInv, UploadTypeOK, DrawRotated
<1>5. completed' \in 0..commitSeq'
  BY <1>3 DEF NumberedInv, UploadTypeOK, DrawRotated
<1>6. UploadTypeOK'
  BY <1>1, <1>2, <1>4, <1>5 DEF NumberedInv, UploadTypeOK, DrawRotated, Committed
<1> QED
  BY <1>1, <1>6 DEF NumberedInv

\* An upload, by any of the three routes.
LEMMA NumberedUpload ==
    ASSUME NumberedInv, NEW t \in Textures, Upload(t)
    PROVE  NumberedInv'
<1> DEFINE c == uploads + 1
<1>1. /\ c \in 0..MaxUploads /\ uploads' = c /\ uploads \in Nat
      /\ latest' = [latest EXCEPT ![t] = c] /\ drawn' = drawn \ {t}
      /\ UNCHANGED <<handlers, slot, marks, workload>>
  BY UploadBounds DEF NumberedInv, UploadTypeOK, Upload, Put
<1>2. latest' \in [Textures -> 0..uploads']
  BY <1>1 DEF NumberedInv, UploadTypeOK
<1>3. Blit(t, c) \in Command
  BY <1>1, CommandType
<1>4. /\ memory' \in [Textures -> 0..MaxUploads]
      /\ queue' \in Seq(Committed)
      /\ open' \in Seq(Command)
      /\ Numbered'
  <2>0. /\ memory \in [Textures -> 0..MaxUploads]
        /\ queue \in Seq(Committed)
        /\ open \in Seq(Command)
    BY DEF NumberedInv, UploadTypeOK, Committed
  <2>1. CASE OpenHazard(t)
    <3>1. open' = Append(open, Blit(t, c)) /\ UNCHANGED <<memory, queue>>
      BY <2>1 DEF Upload, MayRead
    <3> QED
      BY <1>1, <1>3, <2>0, <3>1, AppendCommand DEF NumberedInv, Numbered, marks
  <2>2. CASE MayRead(t) /\ ~OpenHazard(t)
    <3>1. PlainCommit(<<Blit(t, c)>>) /\ UNCHANGED <<memory, open>>
      BY <2>2 DEF Upload
    <3>2. <<Blit(t, c)>> \in Seq(Command)
      BY <1>3
    <3> QED
      BY <1>1, <2>0, <3>1, <3>2, NumberedPlain DEF marks
  <2>3. CASE ~MayRead(t)
    <3>1. memory' = [memory EXCEPT ![t] = c] /\ UNCHANGED <<queue, open>>
      BY <2>3 DEF Upload, MayRead
    <3> QED
      BY <1>1, <2>0, <3>1 DEF NumberedInv, Numbered, marks
  <2> QED
    BY <2>1, <2>2, <2>3 DEF MayRead
<1>5. UploadTypeOK'
  BY <1>1, <1>2, <1>4 DEF NumberedInv, UploadTypeOK, Committed, marks
<1> QED
  BY <1>4, <1>5 DEF NumberedInv

\* An upload that finds no memory for its blit changes what is in memory.
LEMMA NumberedUnstaged ==
    ASSUME NumberedInv, NEW t \in Textures, UploadUnstaged(t)
    PROVE  NumberedInv'
<1> DEFINE c == uploads + 1
<1>1. /\ c \in 0..MaxUploads /\ uploads' = c /\ uploads \in Nat
      /\ latest' = [latest EXCEPT ![t] = c] /\ drawn' = drawn \ {t}
      /\ memory' = [memory EXCEPT ![t] = c]
      /\ UNCHANGED <<queue, open, handlers, slot, marks, workload>>
  BY UploadBounds DEF NumberedInv, UploadTypeOK, UploadUnstaged, Put
<1>2. latest' \in [Textures -> 0..uploads'] /\ memory' \in [Textures -> 0..MaxUploads]
  BY <1>1 DEF NumberedInv, UploadTypeOK
<1>3. UploadTypeOK'
  BY <1>1, <1>2 DEF NumberedInv, UploadTypeOK, marks
<1>4. Numbered'
  BY <1>1 DEF NumberedInv, Numbered, marks
<1> QED
  BY <1>3, <1>4 DEF NumberedInv

\* What the commits that fold the read set do to types and numbers.
LEMMA NumberedSignalled ==
    ASSUME NumberedInv, CommitWithFrameSignal, UNCHANGED handlers
    PROVE  /\ Numbered' /\ queue' \in Seq(Committed) /\ commitSeq' \in 0..MaxCommits
           /\ lastRead' \in [Textures -> 0..commitSeq']
           /\ readSet' \subseteq Textures
           /\ owned' \in BOOLEAN
           /\ completed' \in 0..commitSeq'
<1>1. open \in Seq(Command) /\ commitSeq \in Nat
  BY UploadBounds DEF NumberedInv, UploadTypeOK
<1>2. Numbered' /\ queue' \in Seq(Committed) /\ commitSeq' \in 0..MaxCommits
  BY <1>1, NumberedCommit DEF CommitWithFrameSignal
<1>3. completed' \in 0..commitSeq'
  BY <1>1 DEF NumberedInv, UploadTypeOK, CommitWithFrameSignal
<1>4. commitSeq' = commitSeq + 1 /\ Fold(readSet, commitSeq + 1)
  BY DEF CommitWithFrameSignal
<1>5. /\ lastRead' \in [Textures -> 0..commitSeq']
      /\ readSet' \subseteq Textures
      /\ owned' \in BOOLEAN
  BY <1>1, <1>4, FoldType
<1> QED
  BY <1>2, <1>3, <1>5

LEMMA NumberedCommitFrame ==
    ASSUME NumberedInv, CommitFrame
    PROVE  NumberedInv'
<1>1. /\ Numbered' /\ queue' \in Seq(Committed) /\ commitSeq' \in 0..MaxCommits
      /\ lastRead' \in [Textures -> 0..commitSeq']
      /\ readSet' \subseteq Textures
      /\ owned' \in BOOLEAN
      /\ completed' \in 0..commitSeq'
  BY NumberedSignalled DEF CommitFrame
<1>2. open' \in Seq(Command)
  BY DEF CommitFrame
<1>3. UploadTypeOK'
  BY <1>1, <1>2 DEF NumberedInv, UploadTypeOK, CommitFrame, history, Committed
<1> QED
  BY <1>1, <1>3 DEF NumberedInv

LEMMA NumberedLayeredClear ==
    ASSUME NumberedInv, LayeredClear
    PROVE  NumberedInv'
<1>1. /\ Numbered' /\ queue' \in Seq(Committed) /\ commitSeq' \in 0..MaxCommits
      /\ lastRead' \in [Textures -> 0..commitSeq']
      /\ readSet' \subseteq Textures
      /\ owned' \in BOOLEAN
      /\ completed' \in 0..commitSeq'
  <2>1. CASE slot
    BY <2>1, NumberedSignalled DEF LayeredClear
  <2>2. CASE ~slot
    <3>1. /\ PlainCommit(open) /\ owned' = FALSE
          /\ UNCHANGED <<readSet, lastRead, commitSeq, completed, handlers>>
      BY <2>2 DEF LayeredClear
    <3>2. open \in Seq(Command)
      BY DEF NumberedInv, UploadTypeOK
    <3>3. Numbered' /\ queue' \in Seq(Committed)
      BY <3>1, <3>2, NumberedPlain
    <3> QED
      BY <3>1, <3>3 DEF NumberedInv, UploadTypeOK
  <2> QED
    BY <2>1, <2>2
<1>2. open' \in Seq(Command)
  BY DEF LayeredClear
<1>3. UploadTypeOK'
  BY <1>1, <1>2 DEF NumberedInv, UploadTypeOK, LayeredClear, history, Committed
<1> QED
  BY <1>1, <1>3 DEF NumberedInv

LEMMA NumberedWait ==
    ASSUME NumberedInv, Wait
    PROVE  NumberedInv'
<1>1. memory' \in [Textures -> 0..MaxUploads]
  <2>1. \A t \in Textures : After(open, t, memory[t]) \in 0..MaxUploads
    BY AfterType DEF NumberedInv, UploadTypeOK
  <2> QED
    BY <2>1 DEF Wait
<1>2. open' \in Seq(Command)
  BY DEF Wait
<1>3. UploadTypeOK'
  BY <1>1, <1>2 DEF NumberedInv, UploadTypeOK, Wait, history
<1>4. Numbered'
  BY DEF NumberedInv, Numbered, Wait
<1> QED
  BY <1>3, <1>4 DEF NumberedInv

LEMMA NumberedExecute ==
    ASSUME NumberedInv, GpuExecute
    PROVE  NumberedInv'
<1> DEFINE n == Head(queue).seq
<1>1. /\ queue' \in Seq(Committed)
      /\ queue' = Tail(queue)
      /\ Len(queue) \in Nat \ {0}
      /\ Len(queue') = Len(queue) - 1
      /\ \A k \in 1..Len(queue') : k + 1 \in 1..Len(queue) /\ queue'[k] = queue[k + 1]
      /\ n = queue[1].seq
      /\ Head(queue) \in Committed
  BY TailCommitted DEF NumberedInv, UploadTypeOK, GpuExecute, Committed
<1>2. handlers' = handlers \cup ({n} \ {0}) /\ UNCHANGED <<commitSeq, completed>>
  BY DEF GpuExecute, marks
<1>3. n \in 0..MaxCommits
  BY <1>1 DEF Committed
<1>4. memory' \in [Textures -> 0..MaxUploads]
  <2>1. Head(queue).commands \in Seq(Command)
    BY <1>1 DEF Committed
  <2>2. \A t \in Textures : After(Head(queue).commands, t, memory[t]) \in 0..MaxUploads
    BY <2>1, AfterType DEF NumberedInv, UploadTypeOK
  <2> QED
    BY <2>2 DEF GpuExecute
<1>5. handlers' \subseteq 1..MaxCommits
  <2>1. handlers \subseteq 1..MaxCommits
    BY DEF NumberedInv, UploadTypeOK
  <2> HIDE DEF n
  <2>2. n # 0 => n \in 1..MaxCommits
    BY <1>3, UploadBounds
  <2> QED
    BY <1>2, <2>1, <2>2
<1>6. UploadTypeOK'
  BY <1>1, <1>4, <1>5
  DEF NumberedInv, UploadTypeOK, GpuExecute, marks, history, Committed
<1>7. 1 \in 1..Len(queue)
  BY <1>1
<1>8. ASSUME NEW k \in 1..Len(queue'), queue'[k].seq # 0
      PROVE  /\ completed < queue'[k].seq
             /\ queue'[k].seq <= commitSeq
             /\ \A h \in handlers' : h < queue'[k].seq
  <2>1. k + 1 \in 1..Len(queue) /\ queue'[k] = queue[k + 1] /\ 1 < k + 1
    BY <1>1
  <2>2. /\ completed < queue[k + 1].seq
        /\ queue[k + 1].seq <= commitSeq
        /\ \A h \in handlers : h < queue[k + 1].seq
    BY <1>8, <2>1 DEF NumberedInv, Numbered
  <2>3. n # 0 => n < queue[k + 1].seq
    BY <1>1, <1>7, <1>8, <2>1 DEF NumberedInv, Numbered
  <2> QED
    BY <1>2, <2>1, <2>2, <2>3
<1>9. ASSUME NEW k \in 1..Len(queue'), NEW m \in 1..Len(queue'), k < m,
             queue'[k].seq # 0, queue'[m].seq # 0
      PROVE  queue'[k].seq < queue'[m].seq
  <2>1. /\ k + 1 \in 1..Len(queue) /\ queue'[k] = queue[k + 1]
        /\ m + 1 \in 1..Len(queue) /\ queue'[m] = queue[m + 1]
        /\ k + 1 < m + 1
    BY <1>1, <1>9
  <2> QED
    BY <1>9, <2>1 DEF NumberedInv, Numbered
<1>10. \A h \in handlers' : h <= commitSeq
  <2>1. n # 0 => n <= commitSeq
    BY <1>1, <1>7 DEF NumberedInv, Numbered
  <2> QED
    BY <1>2, <2>1 DEF NumberedInv, Numbered
<1>11. \/ commitSeq = completed
       \/ commitSeq \in handlers'
       \/ \E k \in 1..Len(queue') : queue'[k].seq = commitSeq
  <2>1. CASE commitSeq = completed \/ commitSeq \in handlers
    BY <1>2, <2>1
  <2>2. ASSUME NEW k \in 1..Len(queue), queue[k].seq = commitSeq, commitSeq # completed
        PROVE  \/ commitSeq \in handlers'
               \/ \E j \in 1..Len(queue') : queue'[j].seq = commitSeq
    <3>1. CASE k = 1
      <4>1. commitSeq # 0
        BY <2>2 DEF NumberedInv, UploadTypeOK
      <4> QED
        BY <1>1, <1>2, <2>2, <3>1, <4>1
    <3>2. CASE k # 1
      <4>1. k - 1 \in 1..Len(queue') /\ queue'[k - 1] = queue[(k - 1) + 1] /\ (k - 1) + 1 = k
        BY <1>1, <3>2
      <4> QED
        BY <2>2, <4>1
    <3> QED
      BY <3>1, <3>2
  <2> QED
    BY <2>1, <2>2 DEF NumberedInv, Numbered
<1>12. Numbered'
  BY <1>2, <1>8, <1>9, <1>10, <1>11 DEF Numbered
<1> QED
  BY <1>6, <1>12 DEF NumberedInv

\* A handler raises the watermark to no more than what the buffers still on
\* their way have.
LEMMA NumberedComplete ==
    ASSUME NumberedInv, NEW seq, Complete(seq)
    PROVE  NumberedInv'
<1>1. /\ seq \in handlers /\ seq \in Nat /\ seq <= commitSeq
      /\ completed \in Nat /\ commitSeq \in Nat /\ completed <= commitSeq
      /\ handlers' = handlers \ {seq} /\ UNCHANGED <<queue, commitSeq>>
      /\ completed' = IF completed < seq THEN seq ELSE completed
  BY UploadBounds DEF NumberedInv, UploadTypeOK, Numbered, Complete
<1>2. completed' \in 0..commitSeq' /\ (completed' = seq \/ completed' = completed)
      /\ completed <= completed' /\ seq <= completed'
  BY <1>1
<1>3. UploadTypeOK'
  BY <1>1, <1>2 DEF NumberedInv, UploadTypeOK, Complete, history
<1>4. \A k \in 1..Len(queue) : queue[k].seq # 0 => completed' < queue[k].seq
  BY <1>1, <1>2 DEF NumberedInv, Numbered
<1>5. \/ commitSeq = completed'
      \/ commitSeq \in handlers'
      \/ \E k \in 1..Len(queue) : queue[k].seq = commitSeq
  BY <1>1, <1>2 DEF NumberedInv, Numbered
<1>6. Numbered'
  BY <1>1, <1>4, <1>5 DEF NumberedInv, Numbered
<1> QED
  BY <1>3, <1>6 DEF NumberedInv

\* Every step keeps types and numbers.
LEMMA NumberedWaitGivesUp ==
    ASSUME NumberedInv, WaitGivesUp
    PROVE  NumberedInv'
<1>1. /\ PlainCommit(open) /\ open' = <<>> /\ owned' = FALSE /\ slot' \in {slot, FALSE}
      /\ UNCHANGED <<memory, handlers, readSet, lastRead, commitSeq, completed,
                     uploads, latest, drawn, workload>>
  BY DEF WaitGivesUp, history
<1>2. open \in Seq(Command)
  BY DEF NumberedInv, UploadTypeOK
<1>3. Numbered' /\ queue' \in Seq(Committed)
  BY <1>1, <1>2, NumberedPlain
<1>4. slot' \in BOOLEAN /\ open' \in Seq(Command)
  <2>1. slot \in BOOLEAN
    BY DEF NumberedInv, UploadTypeOK
  <2>2. <<>> \in Seq(Command)
    OBVIOUS
  <2> QED
    BY <1>1, <2>1, <2>2
<1>5. UploadTypeOK'
  BY <1>1, <1>3, <1>4 DEF NumberedInv, UploadTypeOK, Committed
<1> QED
  BY <1>3, <1>5 DEF NumberedInv

LEMMA NumberedNext == NumberedInv /\ [UploadNext]_uploadVars => NumberedInv'
<1> SUFFICES ASSUME NumberedInv, [UploadNext]_uploadVars PROVE NumberedInv'
  OBVIOUS
<1>1. ASSUME NEW t \in Textures, NEW path \in {"serial", "descriptor"}, DrawSampling(t, path)
      PROVE  NumberedInv'
  BY <1>1, NumberedDraw
<1>2. ASSUME NEW t \in Textures, DrawRotated(t) \/ Upload(t) \/ UploadUnstaged(t)
      PROVE  NumberedInv'
  BY <1>2, NumberedDrawRotated, NumberedUpload, NumberedUnstaged
<1>3. CASE CommitFrame \/ LayeredClear \/ Wait \/ WaitGivesUp
  BY <1>3, NumberedCommitFrame, NumberedLayeredClear, NumberedWait, NumberedWaitGivesUp
<1>4. CASE GpuExecute
  BY <1>4, NumberedExecute
<1>5. ASSUME NEW seq \in 1..MaxCommits, Complete(seq) PROVE NumberedInv'
  BY <1>5, NumberedComplete
<1>6. CASE UNCHANGED uploadVars
  BY <1>6 DEF NumberedInv, UploadTypeOK, Numbered, uploadVars
<1> QED
  BY <1>1, <1>2, <1>3, <1>4, <1>5, <1>6 DEF UploadNext

LEMMA SpecNumberedInv == UploadSpec => []NumberedInv
  BY NumberedInit, NumberedNext, PTL DEF UploadSpec

\* Types of the upload bookkeeping, for any number of textures and of buffers,
\* whatever the application does.
THEOREM SpecUploadTypeOK == UploadSpec => []UploadTypeOK
<1>1. NumberedInv => UploadTypeOK
  BY DEF NumberedInv
<1> QED
  BY <1>1, SpecNumberedInv, PTL

\* Once the handlers have run, in whatever order, the watermark is the last
\* number given out (completedCommitSeq).
THEOREM SpecWatermarkCatchesUp == UploadSpec => []WatermarkCatchesUp
<1>1. NumberedInv => WatermarkCatchesUp
  <2> SUFFICES ASSUME NumberedInv, handlers = {},
                      \A i \in 1..Len(queue) : queue[i].seq = 0
               PROVE  completed = commitSeq
    BY DEF WatermarkCatchesUp
  <2>1. CASE commitSeq = completed \/ commitSeq \in handlers
    BY <2>1
  <2>2. CASE \E k \in 1..Len(queue) : queue[k].seq = commitSeq
    BY <2>2 DEF NumberedInv, UploadTypeOK
  <2> QED
    BY <2>1, <2>2 DEF NumberedInv, Numbered
<1> QED
  BY <1>1, SpecNumberedInv, PTL

-----------------------------------------------------------------------------
(* What the GPU has yet to do.  The contents of a texture ascend along it, *)
(* so that what a command finds is decided without looking at the order:   *)
(* a read has the contents it asks for, if they are in memory or in some   *)
(* blit.                                                                   *)

Elements(s) == {s[i] : i \in 1..Len(s)}

\* Everything issued and not executed, for a queue and an open buffer.
IssuedIn(q, o) ==
    (UNION {Elements(q[k].commands) : k \in 1..Len(q)}) \cup Elements(o)

\* Two commands of which a comes first.
InOrder(a, b) ==
    a.tex = b.tex => /\ a.contents <= b.contents
                     /\ b.op = "blit" => a.contents < b.contents

Sorted(s) == \A i, j \in 1..Len(s) : i < j => InOrder(s[i], s[j])
Behind(s, u) == \A i \in 1..Len(s), j \in 1..Len(u) : InOrder(s[i], u[j])

AscendingIn(q, o) ==
    /\ \A k \in 1..Len(q) : Sorted(q[k].commands) /\ Behind(q[k].commands, o)
    /\ \A k, m \in 1..Len(q) : k < m => Behind(q[k].commands, q[m].commands)
    /\ Sorted(o)

LEMMA IssuedMeaning ==
    ASSUME NEW q, NEW o
    PROVE  \A c : c \in IssuedIn(q, o) <=>
               \/ \E k \in 1..Len(q) : c \in Elements(q[k].commands)
               \/ c \in Elements(o)
  BY DEF IssuedIn

LEMMA ElementsMeaning ==
    ASSUME NEW s
    PROVE  \A c : c \in Elements(s) <=> \E i \in 1..Len(s) : s[i] = c
  BY DEF Elements

LEMMA IssuedType ==
    ASSUME NEW q \in Seq(Committed), NEW o \in Seq(Command)
    PROVE  IssuedIn(q, o) \subseteq Command
<1>1. \A s \in Seq(Command) : Elements(s) \subseteq Command
  BY DEF Elements
<1>2. \A k \in 1..Len(q) : q[k].commands \in Seq(Command)
  <2>1. \A k \in 1..Len(q) : q[k] \in Committed
    OBVIOUS
  <2> QED
    BY <2>1 DEF Committed
<1>3. \A c \in IssuedIn(q, o) : c \in Command
  BY <1>1, <1>2, IssuedMeaning
<1> QED
  BY <1>3

\* The open buffer gets one more command, which comes after all the others.
LEMMA IssueOpen ==
    ASSUME NEW q \in Seq(Committed), NEW o \in Seq(Command), NEW c \in Command,
           AscendingIn(q, o), \A b \in IssuedIn(q, o) : InOrder(b, c)
    PROVE  /\ AscendingIn(q, Append(o, c))
           /\ IssuedIn(q, Append(o, c)) = IssuedIn(q, o) \cup {c}
           /\ Elements(Append(o, c)) = Elements(o) \cup {c}
<1> DEFINE r == Append(o, c)
<1>1. /\ Len(o) \in Nat /\ Len(r) = Len(o) + 1 /\ r[Len(o) + 1] = c
      /\ \A i \in 1..Len(o) : r[i] = o[i]
  BY AppendCommand
<1> HIDE DEF r
<1>2. \A i \in 1..Len(r) : \/ i \in 1..Len(o) /\ r[i] = o[i]
                           \/ i = Len(o) + 1 /\ r[i] = c
  <2>1. \A i \in 1..Len(r) : i \in 1..Len(o) \/ i = Len(o) + 1
    BY <1>1
  <2> QED
    BY <1>1, <2>1, Zenon
<1>3. Elements(r) = Elements(o) \cup {c}
  <2>1. Elements(r) \subseteq Elements(o) \cup {c}
    BY <1>2 DEF Elements
  <2>2. \A i \in 1..Len(o) : i \in 1..Len(r) /\ r[i] = o[i]
    BY <1>1
  <2>3. Len(o) + 1 \in 1..Len(r)
    BY <1>1
  <2>4. Elements(o) \cup {c} \subseteq Elements(r)
    BY <1>1, <2>2, <2>3 DEF Elements
  <2> QED
    BY <2>1, <2>4
<1>4. IssuedIn(q, r) = IssuedIn(q, o) \cup {c}
  <2>1. \A b : b \in IssuedIn(q, r) <=> b \in IssuedIn(q, o) \cup {c}
    BY <1>3, IssuedMeaning
  <2> QED
    BY <2>1
<1>5. \A i \in 1..Len(o) : InOrder(o[i], c)
  BY IssuedMeaning, ElementsMeaning
<1>6. Sorted(r)
  <2> SUFFICES ASSUME NEW i \in 1..Len(r), NEW j \in 1..Len(r), i < j
               PROVE  InOrder(r[i], r[j])
    BY DEF Sorted
  <2>1. i \in 1..Len(o) /\ r[i] = o[i]
    BY <1>1, <1>2
  <2>2. CASE j \in 1..Len(o) /\ r[j] = o[j]
    BY <2>1, <2>2 DEF AscendingIn, Sorted
  <2>3. CASE j = Len(o) + 1 /\ r[j] = c
    BY <1>5, <2>1, <2>3
  <2> QED
    BY <1>2, <2>2, <2>3
<1>7. ASSUME NEW k \in 1..Len(q) PROVE Behind(q[k].commands, r)
  <2>1. \A i \in 1..Len(q[k].commands) : InOrder(q[k].commands[i], c)
    BY IssuedMeaning, ElementsMeaning
  <2> QED
    BY <1>2, <2>1 DEF AscendingIn, Behind
<1>8. AscendingIn(q, r)
  BY <1>6, <1>7 DEF AscendingIn
<1> QED
  BY <1>3, <1>4, <1>8 DEF r

\* The open buffer is committed.
LEMMA IssueCommit ==
    ASSUME NEW q \in Seq(Committed), NEW o \in Seq(Command), NEW n \in 0..MaxCommits,
           AscendingIn(q, o),
           NEW r, r = Append(q, [seq |-> n, commands |-> o])
    PROVE  /\ AscendingIn(r, <<>>)
           /\ IssuedIn(r, <<>>) = IssuedIn(q, o)
<1>1. /\ Len(r) = Len(q) + 1 /\ Len(q) \in Nat
      /\ \A k \in 1..Len(q) : r[k] = q[k]
      /\ r[Len(q) + 1].commands = o
  BY AppendCommitted
<1>2. \A k \in 1..Len(r) : \/ k \in 1..Len(q) /\ r[k] = q[k]
                           \/ k = Len(q) + 1 /\ r[k].commands = o
  <2>1. \A k \in 1..Len(r) : k \in 1..Len(q) \/ k = Len(q) + 1
    BY <1>1
  <2> QED
    BY <1>1, <2>1, Zenon
<1>3. \A k \in 1..Len(q) : k \in 1..Len(r) /\ r[k].commands = q[k].commands
  BY <1>1
<1>4. Len(q) + 1 \in 1..Len(r)
  BY <1>1
<1>5. Elements(<<>>) = {}
  BY DEF Elements
<1>6. IssuedIn(r, <<>>) = IssuedIn(q, o)
  <2>1. \A c \in IssuedIn(r, <<>>) : c \in IssuedIn(q, o)
    BY <1>2, <1>5, IssuedMeaning
  <2>2. \A c \in IssuedIn(q, o) : c \in IssuedIn(r, <<>>)
    <3>1. \A k \in 1..Len(q) : Elements(q[k].commands) \subseteq IssuedIn(r, <<>>)
      BY <1>3, IssuedMeaning
    <3>2. Elements(o) \subseteq IssuedIn(r, <<>>)
      BY <1>1, <1>4, IssuedMeaning
    <3> QED
      BY <3>1, <3>2, IssuedMeaning
  <2> QED
    BY <2>1, <2>2
<1>7. \A k \in 1..Len(r) : Sorted(r[k].commands) /\ Behind(r[k].commands, <<>>)
  BY <1>2 DEF AscendingIn, Behind
<1>8. ASSUME NEW k \in 1..Len(r), NEW m \in 1..Len(r), k < m
      PROVE  Behind(r[k].commands, r[m].commands)
  <2>1. k \in 1..Len(q) /\ r[k] = q[k]
    BY <1>1, <1>2, <1>8
  <2>2. CASE m \in 1..Len(q) /\ r[m] = q[m]
    BY <1>8, <2>1, <2>2 DEF AscendingIn
  <2>3. CASE m = Len(q) + 1 /\ r[m].commands = o
    BY <2>1, <2>3 DEF AscendingIn
  <2> QED
    BY <1>2, <2>2, <2>3
<1>9. Sorted(<<>>)
  BY DEF Sorted
<1> QED
  BY <1>6, <1>7, <1>8, <1>9 DEF AscendingIn

\* A command in a buffer of its own comes after the others, and overtakes what
\* is in the open buffer, of other textures.
LEMMA IssuePlain ==
    ASSUME NEW q \in Seq(Committed), NEW o \in Seq(Command), NEW c \in Command,
           AscendingIn(q, o), \A b \in IssuedIn(q, o) : InOrder(b, c),
           \A b \in Elements(o) : b.tex # c.tex,
           NEW s, s = <<c>>,
           NEW r, r = Append(q, [seq |-> 0, commands |-> s])
    PROVE  /\ AscendingIn(r, o)
           /\ IssuedIn(r, o) = IssuedIn(q, o) \cup {c}
<1>0. s \in Seq(Command) /\ 0 \in 0..MaxCommits /\ Len(s) = 1 /\ s[1] = c
  BY UploadBounds
<1>1. /\ Len(r) = Len(q) + 1 /\ Len(q) \in Nat
      /\ \A k \in 1..Len(q) : r[k] = q[k]
      /\ r[Len(q) + 1].commands = s
  BY <1>0, AppendCommitted
<1>2. \A k \in 1..Len(r) : \/ k \in 1..Len(q) /\ r[k] = q[k]
                           \/ k = Len(q) + 1 /\ r[k].commands = s
  <2>1. \A k \in 1..Len(r) : k \in 1..Len(q) \/ k = Len(q) + 1
    BY <1>1
  <2> QED
    BY <1>1, <2>1, Zenon
<1>3. \A k \in 1..Len(q) : k \in 1..Len(r) /\ r[k].commands = q[k].commands
  BY <1>1
<1>4. Len(q) + 1 \in 1..Len(r)
  BY <1>1
<1>5. Elements(s) = {c}
  BY <1>0 DEF Elements
<1>6. IssuedIn(r, o) = IssuedIn(q, o) \cup {c}
  <2>1. \A b \in IssuedIn(r, o) : b \in IssuedIn(q, o) \cup {c}
    <3>1. ASSUME NEW k \in 1..Len(r)
          PROVE  Elements(r[k].commands) \subseteq IssuedIn(q, o) \cup {c}
      <4>1. CASE k \in 1..Len(q) /\ r[k] = q[k]
        BY <4>1, IssuedMeaning
      <4>2. CASE r[k].commands = s
        BY <1>5, <4>2
      <4> QED
        BY <1>2, <4>1, <4>2
    <3>2. Elements(o) \subseteq IssuedIn(q, o)
      BY IssuedMeaning
    <3> QED
      BY <3>1, <3>2, IssuedMeaning
  <2>2. \A b \in IssuedIn(q, o) \cup {c} : b \in IssuedIn(r, o)
    <3>1. \A k \in 1..Len(q) : Elements(q[k].commands) \subseteq IssuedIn(r, o)
      BY <1>3, IssuedMeaning
    <3>2. Elements(s) \subseteq IssuedIn(r, o) /\ Elements(o) \subseteq IssuedIn(r, o)
      BY <1>1, <1>4, IssuedMeaning
    <3> QED
      BY <1>5, <3>1, <3>2, IssuedMeaning
  <2> QED
    BY <2>1, <2>2
<1>7. Sorted(s) /\ Behind(s, o)
  <2>1. Sorted(s)
    BY <1>0 DEF Sorted
  <2>2. Behind(s, o)
    BY <1>0 DEF Behind, InOrder, Elements
  <2> QED
    BY <2>1, <2>2
<1>8. \A k \in 1..Len(r) : Sorted(r[k].commands) /\ Behind(r[k].commands, o)
  BY <1>2, <1>7 DEF AscendingIn
<1>9. ASSUME NEW k \in 1..Len(r), NEW m \in 1..Len(r), k < m
      PROVE  Behind(r[k].commands, r[m].commands)
  <2>1. k \in 1..Len(q) /\ r[k] = q[k]
    BY <1>1, <1>2, <1>9
  <2>2. CASE m \in 1..Len(q) /\ r[m] = q[m]
    BY <1>9, <2>1, <2>2 DEF AscendingIn
  <2>3. CASE m = Len(q) + 1 /\ r[m].commands = s
    <3>1. \A i \in 1..Len(q[k].commands) : InOrder(q[k].commands[i], c)
      BY <2>1, IssuedMeaning, ElementsMeaning
    <3> QED
      BY <1>0, <2>1, <2>3, <3>1 DEF Behind
  <2> QED
    BY <1>2, <2>2, <2>3
<1> QED
  BY <1>6, <1>8, <1>9 DEF AscendingIn

\* The oldest buffer goes; what it held comes before what is left.
LEMMA IssueHead ==
    ASSUME NEW q \in Seq(Committed), NEW o \in Seq(Command), q # <<>>,
           AscendingIn(q, o)
    PROVE  /\ AscendingIn(Tail(q), o)
           /\ Sorted(Head(q).commands)
           /\ IssuedIn(q, o) = Elements(Head(q).commands) \cup IssuedIn(Tail(q), o)
           /\ \A a \in Elements(Head(q).commands), b \in IssuedIn(Tail(q), o) :
                 InOrder(a, b)
<1> DEFINE r == Tail(q)
           h == Head(q).commands
<1>1. /\ Len(q) \in Nat \ {0}
      /\ Len(r) = Len(q) - 1
      /\ \A k \in 1..Len(r) : k + 1 \in 1..Len(q) /\ r[k] = q[k + 1]
      /\ h = q[1].commands
  BY TailCommitted
<1> HIDE DEF r, h
<1>2. 1 \in 1..Len(q)
  BY <1>1
<1>3. \A k \in 1..Len(q) : k = 1 \/ (k - 1 \in 1..Len(r) /\ r[k - 1] = q[k])
  <2> TAKE k \in 1..Len(q)
  <2>1. ASSUME k # 1 PROVE k - 1 \in 1..Len(r) /\ (k - 1) + 1 = k
    BY <1>1, <2>1
  <2>2. k # 1 => r[k - 1] = q[(k - 1) + 1]
    BY <1>1, <2>1
  <2> QED
    BY <2>1, <2>2, Zenon
<1>4. IssuedIn(q, o) = Elements(h) \cup IssuedIn(r, o)
  <2>1. ASSUME NEW c \in IssuedIn(q, o) PROVE c \in Elements(h) \cup IssuedIn(r, o)
    <3>1. CASE c \in Elements(o)
      BY <3>1, IssuedMeaning
    <3>2. ASSUME NEW k \in 1..Len(q), c \in Elements(q[k].commands), k # 1
          PROVE  c \in IssuedIn(r, o)
      <4>1. /\ k - 1 \in 1..Len(r)
            /\ c \in Elements(r[k - 1].commands)
        BY <1>3, <3>2
      <4> QED
        BY <4>1, IssuedMeaning, Zenon
    <3>3. c \in Elements(o) \/ \E k \in 1..Len(q) : c \in Elements(q[k].commands)
      BY IssuedMeaning, Zenon
    <3> QED
      BY <1>1, <3>1, <3>2, <3>3
  <2>2. ASSUME NEW c \in Elements(h) \cup IssuedIn(r, o) PROVE c \in IssuedIn(q, o)
    <3>1. ASSUME NEW k \in 1..Len(r), c \in Elements(r[k].commands)
          PROVE  c \in IssuedIn(q, o)
      <4>1. /\ k + 1 \in 1..Len(q)
            /\ c \in Elements(q[k + 1].commands)
        BY <1>1, <3>1
      <4> QED
        BY <4>1, IssuedMeaning, Zenon
    <3>2. c \in Elements(h) => c \in IssuedIn(q, o)
      BY <1>1, <1>2, IssuedMeaning
    <3>3. \/ c \in Elements(h)
          \/ \E k \in 1..Len(r) : c \in Elements(r[k].commands)
          \/ c \in Elements(o)
      BY IssuedMeaning, Zenon
    <3> QED
      BY <3>1, <3>2, <3>3, IssuedMeaning
  <2> QED
    BY <2>1, <2>2
<1>5. \A k \in 1..Len(r) : Behind(h, r[k].commands)
  <2> TAKE k \in 1..Len(r)
  <2>1. 1 < k + 1
    BY <1>1
  <2> QED
    BY <1>1, <1>2, <2>1 DEF AscendingIn
<1>6. Behind(h, o) /\ Sorted(h)
  BY <1>1, <1>2 DEF AscendingIn
<1>7. \A a \in Elements(h), b \in IssuedIn(r, o) : InOrder(a, b)
  BY <1>5, <1>6, IssuedMeaning, ElementsMeaning DEF Behind
<1>8. AscendingIn(r, o)
  <2>1. \A k \in 1..Len(r) : Sorted(r[k].commands) /\ Behind(r[k].commands, o)
    BY <1>1 DEF AscendingIn
  <2>2. \A k, m \in 1..Len(r) : k < m => Behind(r[k].commands, r[m].commands)
    <3> TAKE k, m \in 1..Len(r)
    <3>1. k < m => k + 1 < m + 1
      BY <1>1
    <3> QED
      BY <1>1, <3>1 DEF AscendingIn
  <2> QED
    BY <2>1, <2>2 DEF AscendingIn
<1> QED
  BY <1>4, <1>6, <1>7, <1>8 DEF r, h

Issued == IssuedIn(queue, open)

\* What each command of a texture holds lies between memory and the last upload,
\* and so does a source for what each read, and each later draw, asks for.
Sourced ==
    /\ \A c \in Issued :
          /\ memory[c.tex] <= c.contents /\ c.contents <= latest[c.tex]
          /\ c.op = "blit" => memory[c.tex] < c.contents
          /\ c.op = "read" => \/ c.contents = memory[c.tex]
                              \/ Blit(c.tex, c.contents) \in Issued
    /\ \A t \in Textures : latest[t] = memory[t] \/ Blit(t, latest[t]) \in Issued

\* The bookkeeping knows of every read that is still to come.
NotedOpen == \A c \in Elements(open) : owned /\ c.tex \in readSet
NotedQueue ==
    \A k \in 1..Len(queue) : \A c \in Elements(queue[k].commands) :
        c.op = "read" => queue[k].seq # 0 /\ queue[k].seq <= lastRead[c.tex]

\* A blit on its way hides behind a read, if the texture was drawn with since.
SampledAgain ==
    \A t \in drawn :
        (\E c \in Issued : c.op = "blit" /\ c.tex = t) => Read(t, latest[t]) \in Issued

\* Only a rotation leaves an open buffer without a slot.
Slotted == "rotate" \notin workload /\ open # <<>> => slot

OrderInv ==
    AscendingIn(queue, open) /\ Sourced /\ NotedOpen /\ NotedQueue
        /\ SampledAgain /\ Slotted

\* The types the steps below rely on.
LEMMA UploadTypes ==
    ASSUME NumberedInv
    PROVE  /\ queue \in Seq(Committed) /\ open \in Seq(Command)
           /\ Issued \subseteq Command
           /\ \A t \in Textures : /\ latest[t] \in Nat /\ latest[t] <= uploads
                                  /\ latest[t] \in 0..MaxUploads
                                  /\ memory[t] \in Nat
                                  /\ lastRead[t] \in Nat /\ lastRead[t] <= commitSeq
           /\ uploads \in Nat /\ commitSeq \in Nat
           /\ \A c \in Command : c.tex \in Textures /\ c.contents \in Nat
                                 /\ c.op \in {"read", "blit"}
                                 /\ c = [op |-> c.op, tex |-> c.tex, contents |-> c.contents]
<1>1. queue \in Seq(Committed) /\ open \in Seq(Command)
  BY DEF NumberedInv, UploadTypeOK, Committed
<1>2. Issued \subseteq Command
  BY <1>1, IssuedType DEF Issued
<1>3. uploads \in Nat /\ commitSeq \in Nat /\ uploads <= MaxUploads
  BY UploadBounds DEF NumberedInv, UploadTypeOK
<1>4. \A t \in Textures : /\ latest[t] \in 0..uploads
                          /\ memory[t] \in 0..MaxUploads
                          /\ lastRead[t] \in 0..commitSeq
  BY DEF NumberedInv, UploadTypeOK
<1>5. \A c \in Command : /\ c.tex \in Textures /\ c.contents \in 0..MaxUploads
                         /\ c.op \in {"read", "blit"}
                         /\ c = [op |-> c.op, tex |-> c.tex, contents |-> c.contents]
  BY DEF Command
<1> QED
  BY <1>1, <1>2, <1>3, <1>4, <1>5, UploadBounds

\* The initial state has nothing to do.
LEMMA OrderInit == UploadInit => OrderInv
<1> SUFFICES ASSUME UploadInit PROVE OrderInv
  OBVIOUS
<1>1. queue = <<>> /\ open = <<>> /\ Len(queue) = 0 /\ Len(open) = 0
  BY DEF UploadInit
<1>2. Elements(open) = {}
  BY <1>1 DEF Elements
<1>3. Issued = {}
  BY <1>1, <1>2, IssuedMeaning DEF Issued
<1>4. AscendingIn(queue, open)
  BY <1>1 DEF AscendingIn, Sorted
<1>5. Sourced
  BY <1>3 DEF Sourced, UploadInit
<1>6. NotedOpen /\ NotedQueue /\ SampledAgain /\ Slotted
  BY <1>1, <1>2, <1>3 DEF NotedOpen, NotedQueue, SampledAgain, Slotted
<1> QED
  BY <1>4, <1>5, <1>6 DEF OrderInv

\* A read of what the application last put into a texture may come last.
LEMMA ReadInOrder ==
    ASSUME NumberedInv, OrderInv, NEW t \in Textures
    PROVE  /\ Read(t, latest[t]) \in Command
           /\ \A b \in Issued : InOrder(b, Read(t, latest[t]))
           /\ memory[t] <= latest[t]
<1>1. Read(t, latest[t]) \in Command
  BY UploadTypes, CommandType
<1>2. \A b \in Issued : InOrder(b, Read(t, latest[t]))
  BY DEF OrderInv, Sourced, InOrder, Read
<1>3. memory[t] <= latest[t]
  <2>1. CASE latest[t] = memory[t]
    BY <2>1, UploadTypes
  <2>2. CASE Blit(t, latest[t]) \in Issued
    BY <2>2 DEF OrderInv, Sourced, Blit
  <2> QED
    BY <2>1, <2>2 DEF OrderInv, Sourced
<1> QED
  BY <1>1, <1>2, <1>3

\* A draw adds a read to what is to do, and a source for it is there.
LEMMA SourcedRead ==
    ASSUME NumberedInv, OrderInv, NEW t \in Textures,
           Issued' = Issued \cup {Read(t, latest[t])},
           UNCHANGED <<memory, latest>>, drawn' = drawn \cup {t}
    PROVE  Sourced' /\ SampledAgain'
<1> DEFINE r == Read(t, latest[t])
<1>1. r.op = "read" /\ r.tex = t /\ r.contents = latest[t] /\ r.op # "blit"
  BY DEF Read
<1>2. memory[t] <= latest[t] /\ latest[t] \in Nat
  BY ReadInOrder, UploadTypes
<1>3. latest[t] = memory[t] \/ Blit(t, latest[t]) \in Issued
  BY DEF OrderInv, Sourced
<1> HIDE DEF r
<1>4. Issued' = Issued \cup {r}
  BY DEF r
<1>5. Sourced'
  <2>1. ASSUME NEW c \in Issued'
        PROVE  /\ memory[c.tex] <= c.contents /\ c.contents <= latest[c.tex]
               /\ c.op = "blit" => memory[c.tex] < c.contents
               /\ c.op = "read" => \/ c.contents = memory[c.tex]
                                   \/ Blit(c.tex, c.contents) \in Issued
    <3>1. CASE c \in Issued
      BY <3>1 DEF OrderInv, Sourced
    <3>2. CASE c = r
      BY <1>1, <1>2, <1>3, <3>2
    <3> QED
      BY <1>4, <3>1, <3>2
  <2>2. \A u \in Textures : latest[u] = memory[u] \/ Blit(u, latest[u]) \in Issued
    BY DEF OrderInv, Sourced
  <2>3. \A u, n : Blit(u, n)' = Blit(u, n)
    BY DEF Blit
  <2> QED
    BY <1>4, <2>1, <2>2 DEF Sourced, Blit
<1>6. SampledAgain'
  <2>1. ASSUME NEW u \in drawn', NEW c \in Issued', c.op = "blit", c.tex = u
        PROVE  Read(u, latest[u]) \in Issued'
    <3>1. CASE u = t
      BY <1>4, <3>1 DEF r
    <3>2. CASE u # t
      <4>1. u \in drawn /\ c \in Issued
        BY <1>1, <1>4, <2>1, <3>2
      <4> QED
        BY <1>4, <2>1, <4>1 DEF OrderInv, SampledAgain
    <3> QED
      BY <3>1, <3>2
  <2> QED
    BY <2>1 DEF SampledAgain, Read
<1> QED
  BY <1>5, <1>6

\* A draw in the open buffer.
LEMMA OrderDraw ==
    ASSUME Tracked, NumberedInv, OrderInv, NEW t \in Textures,
           NEW path \in {"serial", "descriptor"}, DrawSampling(t, path)
    PROVE  OrderInv'
<1> DEFINE r == Read(t, latest[t])
<1>1. /\ open' = Append(open, r) /\ slot' = TRUE /\ drawn' = drawn \cup {t}
      /\ UNCHANGED <<memory, queue, handlers, lastRead, commitSeq, completed,
                     uploads, latest, workload>>
      /\ Note(t)
  BY DEF DrawSampling, Tracked
<1>2. r \in Command /\ \A b \in Issued : InOrder(b, r)
  BY ReadInOrder
<1>3. queue \in Seq(Committed) /\ open \in Seq(Command)
  BY UploadTypes
<1>4. r.tex = t
  BY DEF Read
<1> HIDE DEF r
<1>5. /\ AscendingIn(queue, open)'
      /\ Issued' = Issued \cup {r}
      /\ Elements(open') = Elements(open) \cup {r}
  BY <1>1, <1>2, <1>3, IssueOpen DEF Issued, OrderInv
<1>6. Sourced' /\ SampledAgain'
  BY <1>1, <1>5, SourcedRead DEF r
<1>7. NotedOpen'
  BY <1>1, <1>4, <1>5 DEF OrderInv, NotedOpen, Note
<1>8. NotedQueue'
  BY <1>1 DEF OrderInv, NotedQueue
<1>9. Slotted'
  BY <1>1 DEF Slotted
<1> QED
  BY <1>5, <1>6, <1>7, <1>8, <1>9 DEF OrderInv

\* A commit that folds the read set leaves the order as it is, and takes the
\* reads of the open buffer over into the marks.
LEMMA OrderFolded ==
    ASSUME NumberedInv, OrderInv, commitSeq < MaxCommits,
           queue' = Append(queue, [seq |-> commitSeq + 1, commands |-> open]),
           lastRead' = [u \in Textures |-> IF u \in readSet THEN commitSeq + 1
                                           ELSE lastRead[u]]
    PROVE  /\ AscendingIn(queue', <<>>)
           /\ IssuedIn(queue', <<>>) = Issued
           /\ queue' \in Seq(Committed)
           /\ NotedQueue'
<1>1. queue \in Seq(Committed) /\ open \in Seq(Command) /\ commitSeq \in Nat
  BY UploadTypes
<1>2. commitSeq + 1 \in 0..MaxCommits /\ commitSeq + 1 # 0
  BY <1>1, UploadBounds
<1>3. AscendingIn(queue', <<>>) /\ IssuedIn(queue', <<>>) = Issued
  BY <1>1, <1>2, IssueCommit DEF OrderInv, Issued
<1>4. /\ queue' \in Seq(Committed)
      /\ Len(queue') = Len(queue) + 1 /\ Len(queue) \in Nat
      /\ \A k \in 1..Len(queue) : queue'[k] = queue[k]
      /\ queue'[Len(queue) + 1].seq = commitSeq + 1
      /\ queue'[Len(queue) + 1].commands = open
  BY <1>1, <1>2, AppendCommitted
<1>5. ASSUME NEW k \in 1..Len(queue'), NEW c \in Elements(queue'[k].commands),
             c.op = "read"
      PROVE  queue'[k].seq # 0 /\ queue'[k].seq <= lastRead'[c.tex]
  <2>1. CASE k = Len(queue) + 1
    <3>1. c \in Elements(open) /\ queue'[k].seq = commitSeq + 1
      BY <1>4, <1>5, <2>1
    <3>2. c.tex \in readSet /\ c.tex \in Textures
      <4>1. c \in Issued
        BY <3>1, IssuedMeaning DEF Issued
      <4> QED
        BY <3>1, <4>1, UploadTypes DEF OrderInv, NotedOpen
    <3>3. lastRead'[c.tex] = commitSeq + 1
      BY <3>2
    <3> QED
      BY <1>1, <1>2, <3>1, <3>3
  <2>2. CASE k # Len(queue) + 1
    <3>1. k \in 1..Len(queue) /\ queue'[k] = queue[k]
      BY <1>4, <2>2
    <3>2. queue[k].seq # 0 /\ queue[k].seq <= lastRead[c.tex]
      BY <1>5, <3>1 DEF OrderInv, NotedQueue
    <3>3. c \in Issued
      BY <1>5, <3>1, IssuedMeaning DEF Issued
    <3>4. /\ c.tex \in Textures /\ lastRead[c.tex] \in Nat
          /\ lastRead[c.tex] <= commitSeq
      BY <3>3, UploadTypes
    <3>5. lastRead[c.tex] <= lastRead'[c.tex]
      BY <1>1, <3>4
    <3>6. queue[k].seq \in Nat
      <4>1. queue[k] \in Committed
        BY <1>1, <3>1
      <4> QED
        BY <4>1, UploadBounds DEF Committed
    <3>7. lastRead'[c.tex] \in Nat
      BY <1>1, <3>4
    <3> QED
      BY <3>1, <3>2, <3>4, <3>5, <3>6, <3>7
  <2> QED
    BY <2>1, <2>2
<1>6. NotedQueue'
  BY <1>5 DEF NotedQueue
<1> QED
  BY <1>3, <1>4, <1>6

\* A commit that only moves the open buffer into the queue.
LEMMA OrderSignalled ==
    ASSUME NumberedInv, OrderInv, CommitWithFrameSignal, open' = <<>>,
           UNCHANGED <<memory, latest, drawn>>
    PROVE  OrderInv'
<1>1. /\ commitSeq < MaxCommits
      /\ queue' = Append(queue, [seq |-> commitSeq + 1, commands |-> open])
      /\ lastRead' = [u \in Textures |-> IF u \in readSet THEN commitSeq + 1
                                         ELSE lastRead[u]]
  BY DEF CommitWithFrameSignal, Fold
<1>2. /\ AscendingIn(queue', <<>>)
      /\ IssuedIn(queue', <<>>) = Issued
      /\ NotedQueue'
  BY <1>1, OrderFolded
<1>3. AscendingIn(queue, open)' /\ Issued' = Issued
  BY <1>2 DEF Issued
<1>4. Sourced' /\ SampledAgain'
  BY <1>3 DEF OrderInv, Sourced, SampledAgain, Blit, Read
<1>5. NotedOpen'
  BY DEF NotedOpen, Elements
<1>6. Slotted'
  BY DEF Slotted
<1> QED
  BY <1>2, <1>3, <1>4, <1>5, <1>6 DEF OrderInv

LEMMA OrderCommit ==
    ASSUME Tracked, NumberedInv, OrderInv, CommitFrame \/ LayeredClear
    PROVE  OrderInv'
<1>1. CASE CommitFrame
  BY <1>1, OrderSignalled DEF CommitFrame, history
<1>2. CASE LayeredClear
  <2>1. "layeredClear" \in workload /\ open # <<>>
    BY <1>2 DEF LayeredClear, IsOpen
  <2>2. "rotate" \notin workload
    BY <2>1 DEF Tracked
  <2>3. slot
    BY <2>1, <2>2 DEF OrderInv, Slotted
  <2> QED
    BY <1>2, <2>3, OrderSignalled DEF LayeredClear, history
<1> QED
  BY <1>1, <1>2

\* A draw that commits the open buffer first.
LEMMA OrderDrawRotated ==
    ASSUME NumberedInv, OrderInv, NEW t \in Textures, DrawRotated(t)
    PROVE  OrderInv'
<1> DEFINE r == Read(t, latest[t])
<1>1. /\ commitSeq < MaxCommits
      /\ queue' = Append(queue, [seq |-> commitSeq + 1, commands |-> open])
      /\ lastRead' = [u \in Textures |-> IF u \in readSet THEN commitSeq + 1
                                         ELSE lastRead[u]]
      /\ open' = <<r>> /\ readSet' = {t} /\ owned' = TRUE
      /\ drawn' = drawn \cup {t}
      /\ "rotate" \in workload
      /\ UNCHANGED <<memory, latest, workload>>
  BY DEF DrawRotated
<1>2. /\ AscendingIn(queue', <<>>)
      /\ IssuedIn(queue', <<>>) = Issued
      /\ queue' \in Seq(Committed)
      /\ NotedQueue'
  BY <1>1, OrderFolded
<1>3. r \in Command /\ \A b \in Issued : InOrder(b, r)
  BY ReadInOrder
<1>4. r.tex = t
  BY DEF Read
<1> HIDE DEF r
<1>5. <<>> \in Seq(Command) /\ Append(<<>>, r) = open' /\ Elements(<<>>) = {}
  BY <1>1 DEF Elements
<1>6. /\ AscendingIn(queue', open')
      /\ IssuedIn(queue', open') = Issued \cup {r}
      /\ Elements(open') = {r}
  <2>1. /\ AscendingIn(queue', Append(<<>>, r))
        /\ IssuedIn(queue', Append(<<>>, r)) = IssuedIn(queue', <<>>) \cup {r}
        /\ Elements(Append(<<>>, r)) = Elements(<<>>) \cup {r}
    BY <1>2, <1>3, <1>5, IssueOpen
  <2> QED
    BY <1>2, <1>5, <2>1
<1>7. AscendingIn(queue, open)' /\ Issued' = Issued \cup {r}
  BY <1>6 DEF Issued
<1>8. Sourced' /\ SampledAgain'
  BY <1>1, <1>7, SourcedRead DEF r
<1>9. NotedOpen' /\ Slotted'
  BY <1>1, <1>4, <1>6 DEF NotedOpen, Slotted
<1> QED
  BY <1>2, <1>7, <1>8, <1>9 DEF OrderInv

\* Executing the commands of the oldest buffer on memory.
LEMMA OrderExecuted ==
    ASSUME NumberedInv, OrderInv, NEW s \in Seq(Command), Sorted(s),
           Issued = Elements(s) \cup Issued',
           \A a \in Elements(s), b \in Issued' : InOrder(a, b),
           memory' = [t \in Textures |-> After(s, t, memory[t])],
           UNCHANGED <<latest, drawn>>
    PROVE  Sourced' /\ SampledAgain'
<1>0. /\ Issued \subseteq Command /\ Elements(s) \subseteq Issued
      /\ Issued' \subseteq Issued
      /\ \A c \in Command : c.tex \in Textures /\ c.contents \in Nat
                            /\ c.op \in {"read", "blit"}
                            /\ c = [op |-> c.op, tex |-> c.tex, contents |-> c.contents]
      /\ \A t \in Textures : memory[t] \in Nat /\ latest[t] \in Nat
  BY UploadTypes
<1>1. ASSUME NEW t \in Textures
      PROVE  \/ /\ memory'[t] = memory[t]
                /\ \A a \in Elements(s) : ~ (a.op = "blit" /\ a.tex = t)
             \/ \E a \in Elements(s) :
                   /\ a.op = "blit" /\ a.tex = t /\ memory'[t] = a.contents
                   /\ \A b \in Elements(s) : b.op = "blit" /\ b.tex = t
                         => b.contents <= a.contents
  <2>1. memory'[t] = After(s, t, memory[t])
    OBVIOUS
  <2>2. CASE /\ After(s, t, memory[t]) = memory[t]
             /\ \A i \in 1..Len(s) : ~ (s[i].op = "blit" /\ s[i].tex = t)
    BY <2>1, <2>2, ElementsMeaning
  <2>3. ASSUME NEW m \in 1..Len(s), s[m].op = "blit", s[m].tex = t,
               After(s, t, memory[t]) = s[m].contents,
               \A i \in 1..Len(s) : s[i].op = "blit" /\ s[i].tex = t => i <= m
        PROVE  \E a \in Elements(s) :
                   /\ a.op = "blit" /\ a.tex = t /\ memory'[t] = a.contents
                   /\ \A b \in Elements(s) : b.op = "blit" /\ b.tex = t
                         => b.contents <= a.contents
    <3>1. s[m] \in Elements(s) /\ s[m].contents \in Nat
      BY <1>0, ElementsMeaning
    <3>2. ASSUME NEW b \in Elements(s), b.op = "blit", b.tex = t
          PROVE  b.contents <= s[m].contents
      <4>1. PICK i \in 1..Len(s) : s[i] = b
        BY ElementsMeaning
      <4>2. i <= m
        BY <2>3, <3>2, <4>1
      <4>3. CASE i = m
        BY <3>1, <4>1, <4>3
      <4>4. CASE i < m
        BY <2>3, <3>2, <4>1, <4>4 DEF Sorted, InOrder
      <4> QED
        BY <4>2, <4>3, <4>4
    <3> QED
      BY <2>1, <2>3, <3>1, <3>2
  <2> QED
    BY <2>2, <2>3, AfterMeaning
<1>2. ASSUME NEW t \in Textures
      PROVE  memory'[t] \in Nat /\ memory[t] <= memory'[t] /\ memory'[t] <= latest[t]
  <2>1. memory[t] <= latest[t]
    BY ReadInOrder
  <2>2. \A a \in Elements(s) : a.op = "blit" /\ a.tex = t =>
           memory[t] <= a.contents /\ a.contents <= latest[t] /\ a.contents \in Nat
    BY <1>0 DEF OrderInv, Sourced
  <2> QED
    BY <1>0, <1>1, <2>1, <2>2
\* What was a source before still is one, for what is still to do.
<1>3. ASSUME NEW t \in Textures, NEW n \in Nat, memory'[t] <= n,
             n = memory[t] \/ Blit(t, n) \in Issued
      PROVE  n = memory'[t] \/ Blit(t, n) \in Issued'
  <2>1. CASE n = memory[t]
    BY <1>0, <1>2, <1>3, <2>1
  <2>2. CASE Blit(t, n) \in Elements(s)
    <3>1. Blit(t, n).op = "blit" /\ Blit(t, n).tex = t /\ Blit(t, n).contents = n
      BY DEF Blit
    <3>2. n <= memory'[t]
      BY <1>1, <2>2, <3>1
    <3> QED
      BY <1>2, <1>3, <3>2
  <2> QED
    BY <1>3, <2>1, <2>2
<1>4. ASSUME NEW c \in Issued'
      PROVE  /\ memory'[c.tex] <= c.contents /\ c.contents <= latest[c.tex]
             /\ c.op = "blit" => memory'[c.tex] < c.contents
             /\ c.op = "read" => \/ c.contents = memory'[c.tex]
                                 \/ Blit(c.tex, c.contents) \in Issued'
  <2>1. /\ memory[c.tex] <= c.contents /\ c.contents <= latest[c.tex]
        /\ c.op = "blit" => memory[c.tex] < c.contents
        /\ c.op = "read" => \/ c.contents = memory[c.tex]
                            \/ Blit(c.tex, c.contents) \in Issued
        /\ c.tex \in Textures /\ c.contents \in Nat
    BY <1>0 DEF OrderInv, Sourced
  <2>2. \A a \in Elements(s) : a.tex = c.tex =>
           a.contents <= c.contents /\ (c.op = "blit" => a.contents < c.contents)
    BY DEF InOrder
  <2>3. /\ memory'[c.tex] <= c.contents
        /\ c.op = "blit" => memory'[c.tex] < c.contents
    BY <1>1, <2>1, <2>2
  <2>4. c.op = "read" => \/ c.contents = memory'[c.tex]
                         \/ Blit(c.tex, c.contents) \in Issued'
    BY <1>3, <2>1, <2>3
  <2> QED
    BY <2>1, <2>3, <2>4
<1>5. \A t \in Textures : latest[t] = memory'[t] \/ Blit(t, latest[t]) \in Issued'
  BY <1>0, <1>2, <1>3 DEF OrderInv, Sourced
<1>6. Sourced'
  BY <1>4, <1>5 DEF Sourced, Blit
<1>7. ASSUME NEW t \in drawn, NEW c \in Issued', c.op = "blit", c.tex = t
      PROVE  Read(t, latest[t]) \in Issued'
  <2>1. Read(t, latest[t]) \in Issued
    BY <1>0, <1>7 DEF OrderInv, SampledAgain
  <2>2. CASE Read(t, latest[t]) \in Elements(s)
    <3>1. Read(t, latest[t]).tex = t /\ Read(t, latest[t]).contents = latest[t]
      BY DEF Read
    <3>2. latest[t] < c.contents
      BY <1>7, <2>2, <3>1 DEF InOrder
    <3>3. c.contents <= latest[t] /\ c.contents \in Nat /\ latest[t] \in Nat
      BY <1>0, <1>7 DEF OrderInv, Sourced
    <3> QED
      BY <3>2, <3>3
  <2> QED
    BY <2>1, <2>2
<1>8. SampledAgain'
  BY <1>7 DEF SampledAgain, Read
<1> QED
  BY <1>6, <1>8

\* The GPU executes the oldest buffer.
LEMMA OrderExecute ==
    ASSUME NumberedInv, OrderInv, GpuExecute
    PROVE  OrderInv'
<1> DEFINE s == Head(queue).commands
<1>1. /\ queue # <<>> /\ queue' = Tail(queue) /\ queue \in Seq(Committed)
      /\ open \in Seq(Command)
      /\ memory' = [t \in Textures |-> After(s, t, memory[t])]
      /\ UNCHANGED <<open, slot, readSet, owned, lastRead, latest, drawn, workload>>
  BY UploadTypes DEF GpuExecute, marks, history
<1>2. /\ AscendingIn(queue', open)
      /\ Sorted(s)
      /\ IssuedIn(queue, open) = Elements(s) \cup IssuedIn(queue', open)
      /\ \A a \in Elements(s), b \in IssuedIn(queue', open) : InOrder(a, b)
  BY <1>1, IssueHead DEF OrderInv
<1>3. /\ Len(queue) \in Nat \ {0}
      /\ Len(queue') = Len(queue) - 1
      /\ \A k \in 1..Len(queue') : k + 1 \in 1..Len(queue) /\ queue'[k] = queue[k + 1]
      /\ s \in Seq(Command)
  BY <1>1, TailCommitted DEF Committed
<1> HIDE DEF s
<1>4. AscendingIn(queue, open)'
  BY <1>1, <1>2
<1>5. /\ Issued = Elements(s) \cup Issued'
      /\ \A a \in Elements(s), b \in Issued' : InOrder(a, b)
  BY <1>1, <1>2 DEF Issued
<1>6. Sourced' /\ SampledAgain'
  BY <1>1, <1>2, <1>3, <1>5, OrderExecuted
<1>7. NotedOpen' /\ Slotted'
  BY <1>1 DEF OrderInv, NotedOpen, Slotted, Elements
<1>8. NotedQueue'
  BY <1>1, <1>3 DEF OrderInv, NotedQueue
<1> QED
  BY <1>4, <1>6, <1>7, <1>8 DEF OrderInv

\* A read-back waits until everything is done.
LEMMA OrderWait ==
    ASSUME NumberedInv, OrderInv, Wait
    PROVE  OrderInv'
<1>1. /\ queue = <<>> /\ queue' = <<>> /\ open' = <<>>
      /\ memory' = [t \in Textures |-> After(open, t, memory[t])]
      /\ UNCHANGED <<latest, drawn, workload>>
  BY DEF Wait, history
<1>2. Elements(<<>>) = {} /\ Len(<<>>) = 0
  BY DEF Elements
<1>3. Issued = Elements(open) /\ Issued' = {}
  <2>1. \A c : c \in Issued <=> c \in Elements(open)
    BY <1>1, <1>2, IssuedMeaning DEF Issued
  <2>2. \A c : c \notin IssuedIn(<<>>, <<>>)
    BY <1>2, IssuedMeaning
  <2> QED
    BY <1>1, <2>1, <2>2 DEF Issued
<1>4. open \in Seq(Command) /\ Sorted(open)
  BY UploadTypes DEF OrderInv, AscendingIn
<1>5. Sourced' /\ SampledAgain'
  BY <1>1, <1>3, <1>4, OrderExecuted
<1>6. AscendingIn(queue, open)'
  BY <1>1 DEF AscendingIn, Sorted
<1>7. NotedOpen' /\ NotedQueue' /\ Slotted'
  BY <1>1, <1>2 DEF NotedOpen, NotedQueue, Slotted
<1> QED
  BY <1>5, <1>6, <1>7 DEF OrderInv

LEMMA OrderComplete ==
    ASSUME OrderInv, NEW seq, Complete(seq)
    PROVE  OrderInv'
  BY DEF OrderInv, Complete, history, Sourced, NotedOpen, NotedQueue, SampledAgain,
         Slotted, Issued, Blit, Read

\* A new upload exceeds everything there is of its texture.
LEMMA BlitInOrder ==
    ASSUME NumberedInv, OrderInv, NEW t \in Textures, uploads < MaxUploads
    PROVE  /\ Blit(t, uploads + 1) \in Command
           /\ \A b \in Issued : InOrder(b, Blit(t, uploads + 1))
           /\ memory[t] < uploads + 1 /\ latest[t] < uploads + 1
<1>1. uploads + 1 \in 0..MaxUploads /\ latest[t] \in Nat /\ latest[t] <= uploads
      /\ uploads \in Nat /\ memory[t] \in Nat
  BY UploadTypes, UploadBounds
<1>2. Blit(t, uploads + 1) \in Command
  BY <1>1, CommandType
<1>3. \A b \in Issued : b.tex = t => b.contents <= latest[t] /\ b.contents \in Nat
  BY UploadTypes DEF OrderInv, Sourced
<1>4. \A b \in Issued : InOrder(b, Blit(t, uploads + 1))
  BY <1>1, <1>3 DEF InOrder, Blit
<1>5. memory[t] <= latest[t]
  BY ReadInOrder
<1> QED
  BY <1>1, <1>2, <1>4, <1>5

\* An upload through the GPU adds a blit to what is to do.
LEMMA SourcedBlit ==
    ASSUME NumberedInv, OrderInv, NEW t \in Textures, uploads < MaxUploads,
           Issued' = Issued \cup {Blit(t, uploads + 1)},
           memory' = memory, latest' = [latest EXCEPT ![t] = uploads + 1],
           drawn' = drawn \ {t}
    PROVE  Sourced' /\ SampledAgain'
<1> DEFINE n == uploads + 1
           b == Blit(t, n)
<1>1. /\ b.op = "blit" /\ b.tex = t /\ b.contents = n
      /\ memory[t] < n /\ latest[t] < n /\ n \in Nat /\ latest[t] \in Nat
      /\ memory[t] \in Nat
  BY BlitInOrder, UploadTypes DEF Blit
<1>2. latest'[t] = n /\ \A u \in Textures \ {t} : latest'[u] = latest[u]
  BY DEF NumberedInv, UploadTypeOK
<1>3. Issued' = Issued \cup {b}
  OBVIOUS
<1>4. Issued \subseteq Command
      /\ \A c \in Command : c.tex \in Textures /\ c.contents \in Nat
                            /\ c.op \in {"read", "blit"}
  BY UploadTypes
<1>5. b = Blit(t, latest'[t])
  BY <1>2
<1> HIDE DEF n, b
<1>6. ASSUME NEW c \in Issued'
      PROVE  /\ memory[c.tex] <= c.contents /\ c.contents <= latest'[c.tex]
             /\ c.op = "blit" => memory[c.tex] < c.contents
             /\ c.op = "read" => \/ c.contents = memory[c.tex]
                                 \/ Blit(c.tex, c.contents) \in Issued'
  <2>1. CASE c \in Issued
    <3>1. /\ memory[c.tex] <= c.contents /\ c.contents <= latest[c.tex]
          /\ c.op = "blit" => memory[c.tex] < c.contents
          /\ c.op = "read" => \/ c.contents = memory[c.tex]
                              \/ Blit(c.tex, c.contents) \in Issued
      BY <2>1 DEF OrderInv, Sourced
    <3>2. c.tex \in Textures /\ c.contents \in Nat
      BY <1>4, <2>1
    <3>3. c.contents <= latest'[c.tex]
      BY <1>1, <1>2, <3>1, <3>2
    <3> QED
      BY <1>3, <3>1, <3>3
  <2>2. CASE c = b
    BY <1>1, <1>2, <2>2
  <2> QED
    BY <1>3, <2>1, <2>2
<1>7. ASSUME NEW u \in Textures
      PROVE  latest'[u] = memory[u] \/ Blit(u, latest'[u]) \in Issued'
  <2>1. CASE u = t
    BY <1>3, <1>5, <2>1
  <2>2. CASE u # t
    BY <1>2, <1>3, <2>2 DEF OrderInv, Sourced
  <2> QED
    BY <2>1, <2>2
<1>8. Sourced'
  BY <1>6, <1>7 DEF Sourced, Blit
<1>9. ASSUME NEW u \in drawn', NEW c \in Issued', c.op = "blit", c.tex = u
      PROVE  Read(u, latest'[u]) \in Issued'
  <2>1. u \in drawn /\ u # t /\ u \in Textures
    BY DEF NumberedInv, UploadTypeOK
  <2>2. c \in Issued
    BY <1>1, <1>3, <1>9, <2>1
  <2> QED
    BY <1>2, <1>3, <1>9, <2>1, <2>2 DEF OrderInv, SampledAgain
<1>10. SampledAgain'
  BY <1>9 DEF SampledAgain, Read
<1> QED
  BY <1>8, <1>10

\* A texture no command of which may be read any more has none at all, if it was
\* drawn with since its last upload.
LEMMA NothingLeft ==
    ASSUME NumberedInv, OrderInv, NEW t \in drawn, ~MayRead(t)
    PROVE  /\ \A c \in Issued : c.tex # t
           /\ t \in Textures
<1>0. t \in Textures
  BY DEF NumberedInv, UploadTypeOK
<1>1. ASSUME NEW c \in Elements(open), c.tex = t PROVE FALSE
  <2>1. owned /\ t \in readSet
    BY <1>1 DEF OrderInv, NotedOpen
  <2>2. IsOpen
    BY DEF Elements, IsOpen
  <2> QED
    BY <2>1, <2>2 DEF MayRead, OpenHazard
<1>2. ASSUME NEW k \in 1..Len(queue), NEW c \in Elements(queue[k].commands),
             c.tex = t, c.op = "read"
      PROVE  FALSE
  <2>1. queue[k].seq # 0 /\ queue[k].seq <= lastRead[t]
    BY <1>2 DEF OrderInv, NotedQueue
  <2>2. completed < queue[k].seq
    BY <2>1 DEF NumberedInv, Numbered
  <2>3. queue[k].seq \in Nat
    <3>1. queue[k] \in Committed
      BY UploadTypes
    <3> QED
      BY <3>1, UploadBounds DEF Committed
  <2>4. completed \in Nat /\ lastRead[t] \in Nat
    BY <1>0, UploadTypes DEF NumberedInv, UploadTypeOK
  <2>5. lastRead[t] > completed
    BY <2>1, <2>2, <2>3, <2>4
  <2> QED
    BY <2>5 DEF MayRead, PriorHazard
<1>3. \A c \in Issued : c.tex = t => c.op # "read"
  BY <1>1, <1>2, IssuedMeaning DEF Issued
<1>4. Read(t, latest[t]) \notin Issued
  BY <1>3 DEF Read
<1>5. \A c \in Issued : c.tex = t => c.op # "blit"
  BY <1>4 DEF OrderInv, SampledAgain
<1> QED
  BY <1>0, <1>3, <1>5, UploadTypes

\* An upload, by any of the three routes.
LEMMA OrderUpload ==
    ASSUME Tracked, NumberedInv, OrderInv, NEW t \in Textures, Upload(t)
    PROVE  OrderInv'
<1> DEFINE n == uploads + 1
           b == Blit(t, n)
<1>1. /\ uploads < MaxUploads /\ t \in drawn
      /\ latest' = [latest EXCEPT ![t] = n] /\ drawn' = drawn \ {t}
      /\ UNCHANGED <<slot, readSet, owned, lastRead, workload>>
  BY DEF Upload, Put, marks, Tracked
<1>2. b \in Command /\ \A c \in Issued : InOrder(c, b)
  BY <1>1, BlitInOrder
<1>3. queue \in Seq(Committed) /\ open \in Seq(Command)
  BY UploadTypes
<1>4. b.tex = t /\ b.op = "blit"
  BY DEF Blit
<1>5. CASE OpenHazard(t)
  <2>1. open' = Append(open, b) /\ UNCHANGED <<memory, queue>>
    BY <1>5 DEF Upload, MayRead
  <2> HIDE DEF b
  <2>2. /\ AscendingIn(queue, open)'
        /\ Issued' = Issued \cup {b}
        /\ Elements(open') = Elements(open) \cup {b}
    BY <1>2, <1>3, <2>1, IssueOpen DEF Issued, OrderInv
  <2>3. Sourced' /\ SampledAgain'
    BY <1>1, <2>1, <2>2, SourcedBlit DEF b
  <2>4. NotedOpen'
    BY <1>1, <1>4, <1>5, <2>2 DEF OrderInv, NotedOpen, OpenHazard
  <2>5. NotedQueue'
    BY <1>1, <2>1 DEF OrderInv, NotedQueue
  <2>6. Slotted'
    BY <1>1, <1>5 DEF OrderInv, Slotted, OpenHazard, IsOpen
  <2> QED
    BY <2>2, <2>3, <2>4, <2>5, <2>6 DEF OrderInv
<1>6. CASE MayRead(t) /\ ~OpenHazard(t)
  <2>1. PlainCommit(<<b>>) /\ UNCHANGED <<memory, open>>
    BY <1>6 DEF Upload
  <2>2. queue' = Append(queue, [seq |-> 0, commands |-> <<b>>])
    BY <2>1 DEF PlainCommit
  <2> HIDE DEF b
  <2>3. \A c \in Elements(open) : c.tex # b.tex
    <3>1. ASSUME NEW c \in Elements(open), c.tex = t PROVE FALSE
      <4>1. owned /\ t \in readSet
        BY <3>1 DEF OrderInv, NotedOpen
      <4>2. IsOpen
        BY DEF Elements, IsOpen
      <4> QED
        BY <1>6, <4>1, <4>2 DEF OpenHazard
    <3> QED
      BY <1>4, <3>1
  <2>4. /\ AscendingIn(queue', open)
        /\ IssuedIn(queue', open) = IssuedIn(queue, open) \cup {b}
    <3>1. AscendingIn(queue, open) /\ \A c \in IssuedIn(queue, open) : InOrder(c, b)
      BY <1>2 DEF Issued, OrderInv
    <3>2. \A s : s = <<b>> => \A r : r = Append(queue, [seq |-> 0, commands |-> s]) =>
             /\ AscendingIn(r, open)
             /\ IssuedIn(r, open) = IssuedIn(queue, open) \cup {b}
      BY <1>2, <1>3, <2>3, <3>1, IssuePlain
    <3> QED
      BY <2>2, <3>2
  <2>5. AscendingIn(queue, open)' /\ Issued' = Issued \cup {b}
    BY <2>1, <2>4 DEF Issued
  <2>6. Sourced' /\ SampledAgain'
    BY <1>1, <2>1, <2>5, SourcedBlit DEF b
  <2>7. NotedOpen' /\ Slotted'
    BY <1>1, <2>1 DEF OrderInv, NotedOpen, Slotted, Elements
  <2>8. NotedQueue'
    <3>1. <<b>> \in Seq(Command) /\ 0 \in 0..MaxCommits
      BY <1>2, UploadBounds
    <3>2. /\ Len(queue') = Len(queue) + 1 /\ Len(queue) \in Nat
          /\ \A k \in 1..Len(queue) : queue'[k] = queue[k]
          /\ queue'[Len(queue) + 1].commands = <<b>>
      BY <1>3, <2>2, <3>1, AppendCommitted
    <3>3. Elements(<<b>>) = {b}
      BY DEF Elements
    <3>4. ASSUME NEW k \in 1..Len(queue'), NEW c \in Elements(queue'[k].commands),
                 c.op = "read"
          PROVE  queue'[k].seq # 0 /\ queue'[k].seq <= lastRead'[c.tex]
      <4>1. k # Len(queue) + 1
        BY <1>4, <3>2, <3>3, <3>4
      <4>2. k \in 1..Len(queue) /\ queue'[k] = queue[k]
        BY <3>2, <4>1
      <4> QED
        BY <1>1, <3>4, <4>2 DEF OrderInv, NotedQueue
    <3> QED
      BY <3>4 DEF NotedQueue
  <2> QED
    BY <2>5, <2>6, <2>7, <2>8 DEF OrderInv
<1>7. CASE ~MayRead(t)
  <2>1. memory' = [memory EXCEPT ![t] = n] /\ UNCHANGED <<queue, open>>
    BY <1>7 DEF Upload, MayRead
  <2>2. Issued' = Issued /\ AscendingIn(queue, open)'
    BY <2>1 DEF Issued, OrderInv
  <2>3. \A c \in Issued : c.tex # t
    BY <1>1, <1>7, NothingLeft
  <2>4. /\ memory'[t] = n /\ latest'[t] = n
        /\ \A u \in Textures \ {t} : memory'[u] = memory[u] /\ latest'[u] = latest[u]
    BY <1>1, <2>1 DEF NumberedInv, UploadTypeOK
  <2>5. \A c \in Issued : c.tex \in Textures
    BY UploadTypes
  <2>6. Sourced'
    <3>1. ASSUME NEW c \in Issued
          PROVE  /\ memory'[c.tex] <= c.contents /\ c.contents <= latest'[c.tex]
                 /\ c.op = "blit" => memory'[c.tex] < c.contents
                 /\ c.op = "read" => \/ c.contents = memory'[c.tex]
                                     \/ Blit(c.tex, c.contents) \in Issued
      BY <2>3, <2>4, <2>5 DEF OrderInv, Sourced
    <3>2. \A u \in Textures : latest'[u] = memory'[u] \/ Blit(u, latest'[u]) \in Issued
      BY <2>4 DEF OrderInv, Sourced
    <3> QED
      BY <2>2, <3>1, <3>2 DEF Sourced, Blit
  <2>7. SampledAgain'
    <3>1. ASSUME NEW u \in drawn', NEW c \in Issued, c.op = "blit", c.tex = u
          PROVE  Read(u, latest'[u]) \in Issued
      BY <1>1, <2>4, <2>5, <3>1 DEF OrderInv, SampledAgain
    <3> QED
      BY <2>2, <3>1 DEF SampledAgain, Read
  <2>8. NotedOpen' /\ NotedQueue' /\ Slotted'
    BY <1>1, <2>1 DEF OrderInv, NotedOpen, NotedQueue, Slotted
  <2> QED
    BY <2>2, <2>6, <2>7, <2>8 DEF OrderInv
<1> QED
  BY <1>5, <1>6, <1>7

\* Whatever the application does, its steps keep the invariant if it is one of
\* the tracked ones.
TrackedInv == NumberedInv /\ (Tracked => OrderInv)

LEMMA TrackedNext == TrackedInv /\ [UploadNext]_uploadVars => TrackedInv'
<1> SUFFICES ASSUME TrackedInv, [UploadNext]_uploadVars PROVE TrackedInv'
  OBVIOUS
<1>1. NumberedInv /\ NumberedInv'
  BY NumberedNext DEF TrackedInv
<1>2. workload' = workload
  BY DEF UploadNext, DrawSampling, DrawRotated, Upload, UploadUnstaged, CommitFrame,
         LayeredClear, Wait, WaitGivesUp, GpuExecute, Complete, history, uploadVars
<1>3. ASSUME Tracked PROVE OrderInv'
  <2>1. OrderInv
    BY <1>3 DEF TrackedInv
  <2>2. ASSUME NEW t \in Textures, NEW path \in {"serial", "descriptor"},
               DrawSampling(t, path)
        PROVE  OrderInv'
    BY <1>1, <1>3, <2>1, <2>2, OrderDraw
  <2>3. ASSUME NEW t \in Textures, DrawRotated(t) \/ Upload(t) PROVE OrderInv'
    BY <1>1, <1>3, <2>1, <2>3, OrderDrawRotated, OrderUpload
  <2>4. CASE CommitFrame \/ LayeredClear
    BY <1>1, <1>3, <2>1, <2>4, OrderCommit
  <2>5. CASE Wait
    BY <1>1, <2>1, <2>5, OrderWait
  <2>6. CASE GpuExecute
    BY <1>1, <2>1, <2>6, OrderExecute
  <2>7. ASSUME NEW seq \in 1..MaxCommits, Complete(seq) PROVE OrderInv'
    BY <2>1, <2>7, OrderComplete
  <2>8. CASE UNCHANGED uploadVars
    BY <2>1, <2>8
    DEF uploadVars, OrderInv, Sourced, NotedOpen, NotedQueue, SampledAgain, Slotted,
        Issued, Blit, Read
  <2>9. ~ WaitGivesUp /\ \A t \in Textures : ~ UploadUnstaged(t)
    BY <1>3 DEF WaitGivesUp, UploadUnstaged, Tracked
  <2> QED
    BY <2>2, <2>3, <2>4, <2>5, <2>6, <2>7, <2>8, <2>9 DEF UploadNext
<1>4. Tracked' <=> Tracked
  BY <1>2 DEF Tracked
<1> QED
  BY <1>1, <1>3, <1>4 DEF TrackedInv

LEMMA SpecTrackedInv == UploadSpec => []TrackedInv
<1>1. UploadInit => TrackedInv
  BY NumberedInit, OrderInit DEF TrackedInv
<1> QED
  BY <1>1, TrackedNext, PTL DEF UploadSpec

-----------------------------------------------------------------------------
(* What a position finds.                                                  *)

\* Positions and what is issued are the same, and the order of positions is the
\* order of the commands.
LEMMA PendingPlaces ==
    ASSUME NumberedInv, OrderInv
    PROVE  /\ \A p \in Pending : At(p) \in Issued /\ Precedes(p, End)
           /\ \A c \in Issued : \E p \in Pending : At(p) = c
           /\ \A p, q \in Pending : p = q \/ Precedes(p, q) \/ Precedes(q, p)
           /\ \A p, q \in Pending : Precedes(p, q) => InOrder(At(p), At(q))
<1>1. queue \in Seq(Committed) /\ open \in Seq(Command)
  BY UploadTypes
<1>2. Len(queue) \in Nat /\ Len(open) \in Nat
  BY <1>1
<1>3. /\ \A k \in 1..Len(queue) : Buffer(k) = queue[k].commands
      /\ Buffer(Len(queue) + 1) = open
      /\ \A k \in 1..Len(queue) + 1 : k \in 1..Len(queue) \/ k = Len(queue) + 1
  BY <1>2 DEF Buffer
<1>4. ASSUME NEW p \in Pending
      PROVE  /\ p = <<p[1], p[2]>>
             /\ p[1] \in 1..Len(queue) + 1
             /\ p[2] \in 1..Len(Buffer(p[1]))
  BY DEF Pending
<1>5. ASSUME NEW k \in 1..Len(queue) + 1, NEW i \in 1..Len(Buffer(k))
      PROVE  <<k, i>> \in Pending /\ At(<<k, i>>) = Buffer(k)[i]
  BY DEF Pending, At
<1>6. ASSUME NEW p \in Pending PROVE At(p) \in Issued
  <2>1. At(p) = Buffer(p[1])[p[2]]
    BY DEF At
  <2>2. At(p) \in Elements(Buffer(p[1]))
    BY <1>4, <2>1, ElementsMeaning
  <2>3. CASE p[1] \in 1..Len(queue)
    BY <1>3, <2>2, <2>3, IssuedMeaning DEF Issued
  <2>4. CASE p[1] = Len(queue) + 1
    BY <1>3, <2>2, <2>4, IssuedMeaning DEF Issued
  <2> QED
    BY <1>3, <1>4, <2>3, <2>4
<1>7. ASSUME NEW p \in Pending PROVE Precedes(p, End)
  BY <1>2, <1>4 DEF Precedes, End
<1>8. ASSUME NEW c \in Issued PROVE \E p \in Pending : At(p) = c
  <2>1. \E k \in 1..Len(queue) + 1 : c \in Elements(Buffer(k))
    <3>1. CASE c \in Elements(open)
      BY <1>2, <1>3, <3>1
    <3>2. CASE \E k \in 1..Len(queue) : c \in Elements(queue[k].commands)
      <4>1. PICK k \in 1..Len(queue) : c \in Elements(queue[k].commands)
        BY <3>2
      <4>2. k \in 1..Len(queue) + 1
        BY <1>2
      <4> QED
        BY <1>3, <4>1, <4>2
    <3> QED
      BY <3>1, <3>2, IssuedMeaning DEF Issued
  <2>2. PICK k \in 1..Len(queue) + 1 : c \in Elements(Buffer(k))
    BY <2>1
  <2>3. PICK i \in 1..Len(Buffer(k)) : Buffer(k)[i] = c
    BY <2>2, ElementsMeaning
  <2> QED
    BY <1>5, <2>3
<1>9. \A k \in 1..Len(queue) + 1 : Len(Buffer(k)) \in Nat
  <2>1. \A k \in 1..Len(queue) : queue[k].commands \in Seq(Command)
    <3>1. \A k \in 1..Len(queue) : queue[k] \in Committed
      BY <1>1
    <3> QED
      BY <3>1 DEF Committed
  <2>2. \A k \in 1..Len(queue) : Len(queue[k].commands) \in Nat
    BY <2>1
  <2> QED
    BY <1>2, <1>3, <2>2
<1>10. ASSUME NEW p \in Pending, NEW q \in Pending
       PROVE  p = q \/ Precedes(p, q) \/ Precedes(q, p)
  <2>1. p[1] \in Int /\ q[1] \in Int /\ p[2] \in Int /\ q[2] \in Int
    BY <1>2, <1>4, <1>9
  <2>2. p[1] = q[1] /\ p[2] = q[2] => p = q
    BY <1>4, Zenon
  <2> QED
    BY <2>1, <2>2 DEF Precedes
<1>11. ASSUME NEW p \in Pending, NEW q \in Pending, Precedes(p, q)
       PROVE  InOrder(At(p), At(q))
  <2> DEFINE k == p[1]
             m == q[1]
             i == p[2]
             j == q[2]
  <2>1. /\ k \in 1..Len(queue) + 1 /\ i \in 1..Len(Buffer(k))
        /\ m \in 1..Len(queue) + 1 /\ j \in 1..Len(Buffer(m))
        /\ At(p) = Buffer(k)[i] /\ At(q) = Buffer(m)[j]
        /\ k < m \/ (k = m /\ i < j)
    BY <1>4, <1>11 DEF At, Precedes
  <2> HIDE DEF k, m, i, j
  <2>2. CASE k < m
    <3>1. k \in 1..Len(queue) /\ Buffer(k) = queue[k].commands
      BY <1>2, <1>3, <2>1, <2>2
    <3>2. CASE m \in 1..Len(queue)
      <4>1. Behind(Buffer(k), Buffer(m))
        BY <1>3, <2>2, <3>1, <3>2 DEF OrderInv, AscendingIn
      <4> QED
        BY <2>1, <4>1 DEF Behind
    <3>3. CASE m = Len(queue) + 1
      <4>1. Behind(Buffer(k), Buffer(m))
        BY <1>3, <3>1, <3>3 DEF OrderInv, AscendingIn
      <4> QED
        BY <2>1, <4>1 DEF Behind
    <3> QED
      BY <1>3, <2>1, <3>2, <3>3
  <2>3. CASE k = m /\ i < j
    <3>1. Sorted(Buffer(k))
      BY <1>3, <2>1 DEF OrderInv, AscendingIn
    <3> QED
      BY <2>1, <2>3, <3>1 DEF Sorted
  <2> QED
    BY <2>1, <2>2, <2>3
<1> QED
  BY <1>6, <1>7, <1>8, <1>10, <1>11

\* A position finds n, if n is in memory or in some blit and all blits before
\* the position hold at most n and all others more.
LEMMA FoundSource ==
    ASSUME NumberedInv, OrderInv, NEW t \in Textures, NEW p, NEW n \in Nat,
           n = memory[t] \/ Blit(t, n) \in Issued,
           \A q \in Pending : At(q).op = "blit" /\ At(q).tex = t =>
               IF At(q).contents <= n THEN Precedes(q, p) ELSE ~Precedes(q, p)
    PROVE  Found(p, t) = n
<1> DEFINE blits == BlitsBefore(p, t)
<1>1. \A q \in blits : /\ q \in Pending /\ At(q).op = "blit" /\ At(q).tex = t
                       /\ At(q) \in Issued /\ At(q).contents <= n
                       /\ memory[t] < At(q).contents /\ At(q).contents \in Nat
                       /\ memory[t] \in Nat
  BY PendingPlaces, UploadTypes DEF BlitsBefore, OrderInv, Sourced
<1>2. CASE n = memory[t]
  <2>1. blits = {}
    BY <1>1, <1>2
  <2> QED
    BY <1>2, <2>1 DEF Found
<1>3. CASE Blit(t, n) \in Issued
  <2>1. PICK q \in Pending : At(q) = Blit(t, n)
    BY <1>3, PendingPlaces
  <2>2. At(q).op = "blit" /\ At(q).tex = t /\ At(q).contents = n
    BY <2>1 DEF Blit
  <2>3. q \in blits
    BY <2>2 DEF BlitsBefore
  <2> HIDE DEF blits
  <2>4. \A r \in blits : ~Precedes(q, r)
    BY <1>1, <2>2, PendingPlaces DEF InOrder
  <2>5. ASSUME NEW r \in blits, \A x \in blits : ~Precedes(r, x)
        PROVE  r = q
    BY <1>1, <2>3, <2>4, <2>5, PendingPlaces
  <2>6. (CHOOSE r \in blits : \A x \in blits : ~Precedes(r, x)) = q
    BY <2>3, <2>4, <2>5
  <2>7. Found(p, t) = At(CHOOSE r \in blits : \A x \in blits : ~Precedes(r, x)).contents
    BY <2>3 DEF Found, blits
  <2> QED
    BY <2>2, <2>6, <2>7
<1> QED
  BY <1>2, <1>3

\* Every draw of a tracked application, whose waits end in time and whose ordered
\* uploads find memory, samples what its texture held when it was issued, and the
\* last upload stays, whichever of the three routes uploads take
\* (encodeOrderedTextureUpload), for any number of textures, uploads and buffers.
THEOREM SpecUploadsOrdered == UploadSpec => []UploadsOrdered
<1>1. ASSUME NumberedInv, OrderInv PROVE UploadsOrdered
  <2>1. ASSUME NEW p \in Pending, At(p).op = "read"
        PROVE  Found(p, At(p).tex) = At(p).contents
    <3> DEFINE t == At(p).tex
               n == At(p).contents
    <3>1. At(p) \in Issued
      BY <1>1, PendingPlaces
    <3>2. t \in Textures /\ n \in Nat
      BY <1>1, <3>1, UploadTypes
    <3>3. n = memory[t] \/ Blit(t, n) \in Issued
      BY <1>1, <2>1, <3>1 DEF OrderInv, Sourced
    <3>4. ASSUME NEW q \in Pending, At(q).op = "blit", At(q).tex = t
          PROVE  IF At(q).contents <= n THEN Precedes(q, p) ELSE ~Precedes(q, p)
      <4>1. At(q).contents \in Nat
        BY <1>1, PendingPlaces, UploadTypes
      <4>2. q # p
        BY <2>1, <3>4
      <4>3. Precedes(q, p) \/ Precedes(p, q)
        BY <1>1, <4>2, PendingPlaces
      <4>4. Precedes(q, p) => At(q).contents <= n
        BY <1>1, <3>4, PendingPlaces DEF InOrder
      <4>5. Precedes(p, q) => n < At(q).contents
        BY <1>1, <3>4, PendingPlaces DEF InOrder
      <4> QED
        BY <3>2, <4>1, <4>3, <4>4, <4>5
    <3> HIDE DEF t, n
    <3>5. Found(p, t) = n
      BY <1>1, <3>2, <3>3, <3>4, FoundSource
    <3> QED
      BY <3>5 DEF t, n
  <2>2. ASSUME NEW t \in Textures PROVE Found(End, t) = latest[t]
    <3>1. latest[t] \in Nat /\ (latest[t] = memory[t] \/ Blit(t, latest[t]) \in Issued)
      BY <1>1, UploadTypes DEF OrderInv, Sourced
    <3>2. ASSUME NEW q \in Pending, At(q).op = "blit", At(q).tex = t
          PROVE  At(q).contents <= latest[t] /\ Precedes(q, End)
      BY <1>1, <3>2, PendingPlaces DEF OrderInv, Sourced
    <3> QED
      BY <1>1, <3>1, <3>2, FoundSource
  <2> QED
    BY <2>1, <2>2 DEF UploadsOrdered, SampledAtDrawTime, LastUploadStays
<1>2. TrackedInv => UploadsOrdered
  BY <1>1 DEF TrackedInv, UploadsOrdered, SampledAtDrawTime, LastUploadStays
<1> QED
  BY <1>2, SpecTrackedInv, PTL

=============================================================================
