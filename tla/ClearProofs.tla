------------------------- MODULE ClearProofs -------------------------
(***************************************************************************)
(* Proofs about deferred clears.                                           *)
(*                                                                         *)
(* DefaultClear, for applications that draw to the default framebuffer     *)
(* only and keep to what the shadow supports: types, that no encoder is    *)
(* opened inside another, that no call is lost, and that what is shown is  *)
(* what has been drawn.                                                    *)
(*                                                                         *)
(* FboClearRegistry, for any textures, views, passes and size of the       *)
(* registry: its types, and, for coverages that do not overlap, that       *)
(* nobody can tell that clears are deferred.  What makes that inductive is *)
(* that nothing is owed to what has just been read or to the attachments   *)
(* of the open pass, which later draws continue without looking.           *)
(***************************************************************************)
EXTENDS DefaultClear, FboClearRegistry, Integers, FiniteSetTheorems,
        WellFoundedInduction, TLAPS

\* The applications: no framebuffer objects, no converted reads, and the
\* discipline of ShadowCurrent and GpuCurrent.
OneTarget == \A w \in Workloads : w.calls \cap {"fboDraw", "readOther", "mixed"} = {}

\* Something is inside what a partial write covers.
InsideNonempty == Inside # {}

-----------------------------------------------------------------------------
(* The frame graph as a value.                                             *)

GraphStates ==
    [owedMask : SUBSET Bits, owedValue : [Bits -> Values], batch : SUBSET Bits,
     actual : [Bits -> Contents], encoder : {"none", "default", "fbo"},
     nested : BOOLEAN]

\* What the target holds once the batch and what is owed are encoded.
View(g) ==
    [b \in Bits |-> IF b \in g.batch THEN Ink
                    ELSE IF b \in g.owedMask THEN g.owedValue[b]
                    ELSE g.actual[b]]

\* While something is owed no encoder is open, and none was ever nested.
Encodable(g) ==
    /\ g \in GraphStates
    /\ g.owedMask = {} \/ g.encoder = "none"
    /\ ~g.nested

\* Between calls, only a batch keeps something owed.
Sound(g) == Encodable(g) /\ (g.owedMask = {} \/ g.batch # {})

\* Opening a pass changes where the contents are noted, not what they are.
LEMMA OpenPassSound ==
  ASSUME NEW g \in GraphStates
  PROVE  /\ OpenPass(g) \in GraphStates
         /\ OpenPass(g).owedMask = {}
         /\ OpenPass(g).batch = g.batch
         /\ OpenPass(g).encoder = g.encoder
         /\ OpenPass(g).nested = g.nested
         /\ View(OpenPass(g)) = View(g)
<1> DEFINE a == [b \in Bits |-> IF b \in g.owedMask THEN g.owedValue[b] ELSE g.actual[b]]
<1>1. a \in [Bits -> Contents]
  BY DEF GraphStates, Contents
<1>2. OpenPass(g) = [g EXCEPT !.actual = a, !.owedMask = {}]
  BY DEF OpenPass
<1> HIDE DEF a
<1>4. OpenPass(g) = [owedMask |-> {}, owedValue |-> g.owedValue, batch |-> g.batch,
                     actual |-> a, encoder |-> g.encoder, nested |-> g.nested]
  BY <1>2 DEF GraphStates
<1>3. \A b \in Bits : a[b] = IF b \in g.owedMask THEN g.owedValue[b] ELSE g.actual[b]
  BY DEF a
<1> QED
  BY <1>1, <1>4, <1>3 DEF GraphStates, View

\* Painting replaces the painted parts.
LEMMA PaintSound ==
  ASSUME NEW g \in GraphStates, NEW S \in SUBSET Bits, NEW v \in Contents
  PROVE  /\ Paint(g, S, v) \in GraphStates
         /\ Paint(g, S, v).owedMask = g.owedMask
         /\ Paint(g, S, v).batch = g.batch
         /\ Paint(g, S, v).encoder = g.encoder
         /\ Paint(g, S, v).nested = g.nested
         /\ g.owedMask = {} /\ g.batch = {} =>
               View(Paint(g, S, v)) = [b \in Bits |-> IF b \in S THEN v ELSE View(g)[b]]
<1> DEFINE a == [b \in Bits |-> IF b \in S THEN v ELSE g.actual[b]]
<1>1. a \in [Bits -> Contents]
  BY DEF GraphStates
<1>2. Paint(g, S, v) = [g EXCEPT !.actual = a]
  BY DEF Paint
<1> HIDE DEF a
<1>4. Paint(g, S, v) = [owedMask |-> g.owedMask, owedValue |-> g.owedValue,
                        batch |-> g.batch, actual |-> a, encoder |-> g.encoder,
                        nested |-> g.nested]
  BY <1>2 DEF GraphStates
<1>3. \A b \in Bits : a[b] = IF b \in S THEN v ELSE g.actual[b]
  BY DEF a
<1> QED
  BY <1>1, <1>4, <1>3 DEF GraphStates, View

\* A record with another encoder.
LEMMA EncoderSound ==
  ASSUME NEW g \in GraphStates, NEW e \in {"none", "default", "fbo"},
         NEW h, h = [g EXCEPT !.encoder = e]
  PROVE  /\ h \in GraphStates
         /\ h.owedMask = g.owedMask
         /\ h.batch = g.batch
         /\ h.actual = g.actual
         /\ h.encoder = e
         /\ h.nested = g.nested
         /\ View(h) = View(g)
<1>1. h = [owedMask |-> g.owedMask, owedValue |-> g.owedValue, batch |-> g.batch,
           actual |-> g.actual, encoder |-> e, nested |-> g.nested]
  BY DEF GraphStates
<1> QED
  BY <1>1 DEF GraphStates, View

\* A record with another batch.
LEMMA BatchSound ==
  ASSUME NEW g \in GraphStates, NEW S \in SUBSET Bits,
         NEW h, h = [g EXCEPT !.batch = S]
  PROVE  /\ h \in GraphStates
         /\ h.owedMask = g.owedMask
         /\ h.owedValue = g.owedValue
         /\ h.batch = S
         /\ h.actual = g.actual
         /\ h.encoder = g.encoder
         /\ h.nested = g.nested
<1>1. h = [owedMask |-> g.owedMask, owedValue |-> g.owedValue, batch |-> S,
           actual |-> g.actual, encoder |-> g.encoder, nested |-> g.nested]
  BY DEF GraphStates
<1> QED
  BY <1>1 DEF GraphStates

\* Encoding the batch changes nothing that can be seen.
LEMMA FlushBatchSound ==
  ASSUME NEW g, Encodable(g)
  PROVE  /\ Encodable(FlushBatch(g))
         /\ FlushBatch(g).batch = {}
         /\ View(FlushBatch(g)) = View(g)
         /\ g.batch # {} \/ g.owedMask = {} => FlushBatch(g).owedMask = {}
<1>1. CASE g.batch = {}
  BY <1>1 DEF FlushBatch, Encodable
<1>2. CASE g.batch # {}
  <2> DEFINE h == OpenPass(g)
             k == Paint(h, g.batch, Ink)
             m == [k EXCEPT !.batch = {}]
             l == [m EXCEPT !.encoder = "none"]
  <2>1. /\ h \in GraphStates /\ h.owedMask = {} /\ h.batch = g.batch
        /\ h.nested = g.nested /\ View(h) = View(g)
    BY OpenPassSound DEF Encodable
  <2>2. g.batch \in SUBSET Bits /\ Ink \in Contents
    BY DEF Encodable, GraphStates, Contents
  <2> HIDE DEF h
  <2>3. /\ k \in GraphStates /\ k.owedMask = {} /\ k.nested = g.nested
    BY <2>1, <2>2, PaintSound
  <2> HIDE DEF k
  <2>9. /\ m \in GraphStates /\ m.owedMask = {} /\ m.batch = {}
        /\ m.actual = k.actual /\ m.nested = g.nested
    BY <2>3, BatchSound
  <2> HIDE DEF m
  <2>10. /\ l \in GraphStates /\ l.owedMask = {} /\ l.batch = {} /\ l.nested = g.nested
         /\ l.actual = k.actual
    BY <2>9, EncoderSound
  <2>4. \A b \in Bits : View(l)[b] = k.actual[b]
    BY <2>10 DEF View
  <2>5. \A b \in Bits : k.actual[b] = IF b \in g.batch THEN Ink ELSE h.actual[b]
    BY <2>1 DEF k, Paint, GraphStates
  <2>6. \A b \in Bits : View(h)[b] = IF b \in h.batch THEN Ink ELSE h.actual[b]
    BY <2>1 DEF View
  <2>7. View(l) = View(g)
    <3>1. \A b \in Bits : View(l)[b] = View(g)[b]
      BY <2>1, <2>4, <2>5, <2>6
    <3> HIDE DEF l
    <3> QED
      BY <3>1 DEF View
  <2>8. FlushBatch(g) = l
    BY <1>2 DEF FlushBatch, h, k, m
  <2> QED
    BY <2>7, <2>8, <2>10 DEF Encodable
<1> QED
  BY <1>1, <1>2

\* Ending the pass encodes the batch.
LEMMA EndRenderPassSound ==
  ASSUME NEW g, Encodable(g)
  PROVE  /\ Encodable(EndRenderPass(g))
         /\ EndRenderPass(g).batch = {}
         /\ EndRenderPass(g).encoder = "none"
         /\ View(EndRenderPass(g)) = View(g)
         /\ g.batch # {} \/ g.owedMask = {} => EndRenderPass(g).owedMask = {}
<1> DEFINE h == FlushBatch(g)
<1>1. /\ Encodable(h) /\ h.batch = {} /\ View(h) = View(g)
      /\ g.batch # {} \/ g.owedMask = {} => h.owedMask = {}
  BY FlushBatchSound
<1>2. h \in GraphStates /\ ~h.nested
  BY <1>1 DEF Encodable
<1> DEFINE k == EndRenderPass(g)
<1>3. k = [h EXCEPT !.encoder = "none"]
  BY DEF EndRenderPass
<1> HIDE DEF h, k
<1>4. /\ k \in GraphStates /\ k.owedMask = h.owedMask /\ k.batch = h.batch
      /\ k.encoder = "none" /\ k.nested = h.nested /\ View(k) = View(h)
  BY <1>2, <1>3, EncoderSound
<1>5. /\ Encodable(k) /\ k.batch = {} /\ k.encoder = "none" /\ View(k) = View(g)
      /\ g.batch # {} \/ g.owedMask = {} => k.owedMask = {}
  BY <1>1, <1>2, <1>4 DEF Encodable
<1> QED
  BY <1>5 DEF k

\* Clearing what is owed opens no encoder inside another.
LEMMA FlushPendingClearSound ==
  ASSUME NEW g, Encodable(g)
  PROVE  /\ Encodable(FlushPendingClear(g))
         /\ FlushPendingClear(g).owedMask = {}
         /\ FlushPendingClear(g).batch = g.batch
         /\ FlushPendingClear(g).encoder = g.encoder
         /\ View(FlushPendingClear(g)) = View(g)
<1>1. CASE g.owedMask = {}
  BY <1>1 DEF FlushPendingClear, Encodable
<1>2. CASE g.owedMask # {}
  <2> DEFINE h == OpenPass(g)
  <2>1. /\ h \in GraphStates /\ h.owedMask = {} /\ h.batch = g.batch
        /\ h.encoder = g.encoder /\ h.nested = g.nested /\ View(h) = View(g)
    BY OpenPassSound DEF Encodable
  <2>2. ~h.nested /\ g.encoder = "none"
    BY <1>2, <2>1 DEF Encodable
  <2>3. FlushPendingClear(g) = [h EXCEPT !.nested = h.nested \/ g.encoder # "none"]
    BY <1>2 DEF FlushPendingClear
  <2> HIDE DEF h
  <2>4. FlushPendingClear(g) = h
    <3>1. (h.nested \/ g.encoder # "none") = h.nested
      BY <2>1, <2>2 DEF GraphStates
    <3>2. [h EXCEPT !.nested = h.nested] = h
      BY <2>1 DEF GraphStates
    <3> QED
      BY <2>3, <3>1, <3>2, Zenon
  <2> QED
    BY <2>1, <2>2, <2>4 DEF Encodable
<1> QED
  BY <1>1, <1>2

\* A pass of one draw.
LEMMA PassSound ==
  ASSUME NEW g, Encodable(g), g.batch = {}, NEW S \in SUBSET Bits,
         NEW e \in {"none", "default", "fbo"}
  PROVE  LET h == [Paint(OpenPass(g), S, Ink) EXCEPT !.encoder = e]
         IN  /\ Sound(h)
             /\ \A b \in Bits : View(h)[b] = IF b \in S THEN Ink ELSE View(g)[b]
<1> DEFINE k == OpenPass(g)
           l == Paint(k, S, Ink)
           h == [l EXCEPT !.encoder = e]
<1>1. /\ k \in GraphStates /\ k.owedMask = {} /\ k.batch = {} /\ ~k.nested
      /\ View(k) = View(g)
  BY OpenPassSound DEF Encodable
<1>2. Ink \in Contents
  BY DEF Contents
<1> HIDE DEF k
<1>3. /\ l \in GraphStates /\ l.owedMask = {} /\ l.batch = {} /\ l.nested = k.nested
      /\ View(l) = [b \in Bits |-> IF b \in S THEN Ink ELSE View(k)[b]]
  BY <1>1, <1>2, PaintSound
<1> HIDE DEF l
<1>4. /\ h \in GraphStates /\ h.owedMask = {} /\ h.batch = {} /\ h.nested = l.nested
      /\ View(h) = View(l)
  BY <1>3, EncoderSound
<1> HIDE DEF h
<1>5. Sound(h)
  BY <1>1, <1>3, <1>4 DEF Sound, Encodable
<1>6. \A b \in Bits : View(h)[b] = IF b \in S THEN Ink ELSE View(g)[b]
  BY <1>1, <1>3, <1>4
<1> QED
  BY <1>5, <1>6 DEF h, l, k

-----------------------------------------------------------------------------
(* The frame graph and what the context owes it.                           *)

\* What the target will hold once all that is owed is encoded.
Composed ==
    [b \in Bits |-> IF b \in pendingMask THEN pendingValue[b] ELSE View(Graph)[b]]

\* The variables are a state of the frame graph.
LEMMA GraphTyped == TypeOK => Graph \in GraphStates
  BY DEF TypeOK, Graph, GraphStates

\* What Becomes(g) leaves.
LEMMA BecomesGraph ==
  ASSUME NEW g, Sound(g), Becomes(g)
  PROVE  /\ Graph' = g
         /\ owedMask' \in SUBSET Bits
         /\ owedValue' \in [Bits -> Values]
         /\ batch' \in SUBSET Bits
         /\ actual' \in [Bits -> Contents]
         /\ encoder' \in {"none", "default", "fbo"}
         /\ nested' \in BOOLEAN
<1>1. g \in GraphStates
  BY DEF Sound, Encodable
<1> QED
  BY <1>1 DEF Becomes, Graph, GraphStates

\* encodePendingWork hands on what the context owes.
LEMMA EncodePendingWorkSound ==
  ASSUME TypeOK, Sound(Graph)
  PROVE  /\ Encodable(EncodePendingWork(Graph))
         /\ View(EncodePendingWork(Graph)) = Composed
         /\ pendingMask = {} => EncodePendingWork(Graph) = Graph
         /\ pendingMask # {} => /\ EncodePendingWork(Graph).batch = {}
                                /\ EncodePendingWork(Graph).encoder = "none"
<1>1. CASE pendingMask = {}
  <2>1. EncodePendingWork(Graph) = Graph
    BY <1>1 DEF EncodePendingWork
  <2>2. View(Graph) = Composed
    BY <1>1 DEF Composed, View
  <2> QED
    BY <1>1, <2>1, <2>2 DEF Sound
<1>2. CASE pendingMask # {}
  <2> DEFINE g == EndRenderPass(Graph)
             h == EncodePendingWork(Graph)
  <2>1. /\ Encodable(g) /\ g.batch = {} /\ g.encoder = "none" /\ g.owedMask = {}
        /\ View(g) = View(Graph)
    BY EndRenderPassSound DEF Sound
  <2>2. h = [g EXCEPT !.owedMask = pendingMask, !.owedValue = pendingValue]
    BY <1>2 DEF EncodePendingWork
  <2> HIDE DEF g, h
  <2>3. h = [owedMask |-> pendingMask, owedValue |-> pendingValue, batch |-> g.batch,
             actual |-> g.actual, encoder |-> g.encoder, nested |-> g.nested]
    BY <2>1, <2>2 DEF Encodable, GraphStates
  <2>4. Encodable(h) /\ h.batch = {} /\ h.encoder = "none"
    BY <2>1, <2>3 DEF Encodable, GraphStates, TypeOK
  <2>5. \A b \in Bits : View(h)[b] = IF b \in pendingMask THEN pendingValue[b]
                                     ELSE View(g)[b]
    BY <2>1, <2>3 DEF View
  <2>6. View(h) = Composed
    BY <2>1, <2>5 DEF View, Composed
  <2> QED
    BY <1>2, <2>4, <2>6 DEF h
<1> QED
  BY <1>1, <1>2

\* Once everything is encoded, the target holds what was composed.
LEMMA SettledSound ==
  ASSUME TypeOK, Sound(Graph)
  PROVE  /\ Sound(Settled)
         /\ View(Settled) = Composed
         /\ GpuColor(Settled) \in [Color -> Contents]
         /\ \A b \in Color : GpuColor(Settled)[b] = Composed[b]
         /\ Settled.batch = {} /\ Settled.owedMask = {}
<1> DEFINE g == EncodePendingWork(Graph)
           h == EndRenderPass(g)
           k == FlushPendingClear(h)
<1>1. Encodable(g) /\ View(g) = Composed
  BY EncodePendingWorkSound
<1> HIDE DEF g
<1>2. Encodable(h) /\ h.batch = {} /\ View(h) = View(g)
  BY <1>1, EndRenderPassSound
<1> HIDE DEF h
<1>3. Encodable(k) /\ k.owedMask = {} /\ k.batch = {} /\ View(k) = View(h)
  BY <1>2, FlushPendingClearSound
<1>4. k = Settled
  BY DEF Settled, g, h
<1> HIDE DEF k
<1>5. k \in GraphStates /\ \A b \in Bits : View(k)[b] = k.actual[b]
  BY <1>3 DEF View, Encodable
<1>6. \A b \in Color : b \in Bits
  BY ClearAssumption
<1>7. /\ GpuColor(k) \in [Color -> Contents]
      /\ \A b \in Color : GpuColor(k)[b] = Composed[b]
  BY <1>1, <1>2, <1>3, <1>5, <1>6 DEF GpuColor, GraphStates
<1> QED
  BY <1>1, <1>2, <1>3, <1>4, <1>7 DEF Sound

\* The upload of the shadow.
LEMMA UploadShadowSound ==
  ASSUME NEW g, Encodable(g), TypeOK
  PROVE  /\ Encodable(UploadShadow(g))
         /\ shadowValid /\ fill = NoFill =>
               /\ UploadShadow(g).owedMask = {}
               /\ \A b \in Bits : View(UploadShadow(g))[b] =
                     IF b \in Color THEN shadow[b] ELSE View(g)[b]
         /\ ~(shadowValid /\ fill = NoFill) => UploadShadow(g) = g
<1>1. CASE ~(shadowValid /\ fill = NoFill)
  BY <1>1 DEF UploadShadow
<1>2. CASE shadowValid /\ fill = NoFill
  <2> DEFINE f == FlushPendingClear(g)
             h == EndRenderPass(f)
             a == [b \in Bits |-> IF b \in Color THEN shadow[b] ELSE h.actual[b]]
             k == UploadShadow(g)
  <2>1. Encodable(f) /\ f.owedMask = {} /\ View(f) = View(g)
    BY FlushPendingClearSound
  <2> HIDE DEF f
  <2>2. /\ Encodable(h) /\ h.batch = {} /\ h.owedMask = {} /\ h.encoder = "none"
        /\ View(h) = View(f)
    BY <2>1, EndRenderPassSound
  <2>3. k = [h EXCEPT !.actual = a]
    BY <1>2 DEF UploadShadow, f
  <2>4. a \in [Bits -> Contents]
    BY <2>2 DEF TypeOK, Encodable, GraphStates
  <2>5. \A b \in Bits : a[b] = IF b \in Color THEN shadow[b] ELSE h.actual[b]
    OBVIOUS
  <2> HIDE DEF h, a, k
  <2>6. k = [owedMask |-> h.owedMask, owedValue |-> h.owedValue, batch |-> h.batch,
             actual |-> a, encoder |-> h.encoder, nested |-> h.nested]
    BY <2>2, <2>3 DEF Encodable, GraphStates
  <2>7. Encodable(k) /\ k.owedMask = {}
    BY <2>2, <2>4, <2>6 DEF Encodable, GraphStates
  <2>8. \A b \in Bits : View(h)[b] = h.actual[b] /\ View(k)[b] = a[b]
    BY <2>2, <2>6 DEF View
  <2> QED
    BY <1>2, <2>1, <2>2, <2>5, <2>7, <2>8 DEF k
<1> QED
  BY <1>1, <1>2

-----------------------------------------------------------------------------
(* The invariant.                                                          *)

\* The parts S of the image are as in c, unless they are undefined.
Agree(S, c) == \A b \in S : drawn[b] \in {Undefined, c[b]}

DepthKept == Agree(Bits \ Color, Composed)

\* The target has the current color, unless only the shadow does.
TargetKept == colorIn # "shadow" => Agree(Color, Composed)

\* The shadow has the current color, unless only the target does.
ShadowKept == colorIn # "gpu" => Agree(Color, Filled)

\* What the application's calls say of the shadow is what its flags say, and a
\* fill is deferred only while the target has the color, too.
Places ==
    /\ colorIn = "shadow" => shadowValid
    /\ colorIn = "gpu" => ~shadowValid
    /\ shadowValid /\ fill # NoFill => colorIn = "both"

IInv == TypeOK /\ Sound(Graph) /\ DepthKept /\ TargetKept /\ ShadowKept /\ Places

\* Filling the shadow keeps its type, and its contents by definition.
LEMMA FilledTyped == TypeOK => Filled \in [Color -> Contents]
  BY DEF TypeOK, Filled, Contents

LEMMA Parts == /\ Inside \in SUBSET Bits /\ Color \in SUBSET Bits /\ Bits \in SUBSET Bits
               /\ Inside \subseteq Color /\ Ink \in Contents /\ Undefined \in Contents
               /\ Ink # Undefined /\ NoFill \notin Values /\ First \in Values
               /\ Values \subseteq Contents
  BY ClearAssumption DEF Contents

\* A new context.
LEMMA InitIInv == Init => IInv
<1> SUFFICES ASSUME Init PROVE IInv
  OBVIOUS
<1>1. TypeOK
  BY Parts DEF Init, TypeOK
<1>2. Graph \in GraphStates /\ Graph.owedMask = {} /\ ~Graph.nested
  <2>1. Graph \in GraphStates
    BY <1>1, GraphTyped
  <2> QED
    BY <2>1 DEF Init, Graph
<1>3. Sound(Graph)
  BY <1>2 DEF Sound, Encodable
<1>4. \A b \in Bits : /\ b \in Color => Composed[b] = First /\ drawn[b] = First
                      /\ b \notin Color => drawn[b] = Undefined
  BY DEF Init, Composed
<1>5. DepthKept /\ TargetKept
  BY <1>4, Parts DEF DepthKept, TargetKept, Agree
<1>6. ShadowKept
  BY <1>4, Parts DEF ShadowKept, Agree, Init, Filled
<1>7. Places
  BY DEF Places, Init
<1> QED
  BY <1>1, <1>3, <1>5, <1>6, <1>7 DEF IInv

\* What AfterPendingWork leaves owed is in the frame graph.
LEMMA AfterPendingWorkComposed ==
  ASSUME TypeOK, NEW g, Sound(g), AfterPendingWork(g)
  PROVE  /\ Graph' = g
         /\ \A b \in Bits : Composed'[b] = View(g)[b]
<1>1. Graph' = g /\ pendingMask' = {}
  BY BecomesGraph DEF AfterPendingWork
<1> QED
  BY <1>1 DEF Composed, View

\* The types after AfterPendingWork.
LEMMA AfterPendingWorkTyped ==
  ASSUME TypeOK, NEW g, Sound(g), AfterPendingWork(g),
         shadow' \in [Color -> Contents], shadowValid' \in BOOLEAN,
         fill' \in Values \cup {NoFill}, colorIn' \in {"both", "shadow", "gpu"},
         shown' \in [Color -> Contents], drawn' \in [Bits -> Contents],
         workload' = workload
  PROVE  TypeOK'
<1>1. /\ owedMask' \in SUBSET Bits /\ owedValue' \in [Bits -> Values]
      /\ batch' \in SUBSET Bits /\ actual' \in [Bits -> Contents]
      /\ encoder' \in {"none", "default", "fbo"} /\ nested' \in BOOLEAN
  BY BecomesGraph DEF AfterPendingWork
<1>2. pendingMask' = {} /\ pendingValue' = pendingValue
  BY DEF AfterPendingWork
<1> QED
  BY <1>1, <1>2 DEF TypeOK

\* The types after a call that leaves what the context owes alone.
LEMMA PendingKeptTyped ==
  ASSUME TypeOK, NEW g, Sound(g), Becomes(g), UNCHANGED pendingVars,
         shadow' \in [Color -> Contents], shadowValid' \in BOOLEAN,
         fill' \in Values \cup {NoFill}, colorIn' \in {"both", "shadow", "gpu"},
         shown' \in [Color -> Contents], drawn' \in [Bits -> Contents],
         workload' = workload
  PROVE  TypeOK'
<1>1. /\ owedMask' \in SUBSET Bits /\ owedValue' \in [Bits -> Values]
      /\ batch' \in SUBSET Bits /\ actual' \in [Bits -> Contents]
      /\ encoder' \in {"none", "default", "fbo"} /\ nested' \in BOOLEAN
  BY BecomesGraph
<1> QED
  BY <1>1 DEF TypeOK, pendingVars

\* A call that shows nothing.
LEMMA SilentTyped == Silent => shown' \in [Color -> Contents]
  BY Parts DEF Silent

\* Drawing keeps the image's type and changes the parts drawn.
LEMMA DrawsImage ==
  ASSUME TypeOK, NEW S \in SUBSET Bits, NEW v \in Contents, Draws(S, v)
  PROVE  /\ drawn' \in [Bits -> Contents]
         /\ \A b \in Bits : drawn'[b] = IF b \in S THEN v ELSE drawn[b]
         /\ workload' = workload
  BY DEF Draws, TypeOK

\* Writing the shadow.
LEMMA WriteShadowBytes ==
  ASSUME NEW bytes \in [Color -> Contents], NEW S, NEW v \in Contents,
         WriteShadow(bytes, S, v)
  PROVE  /\ shadow' \in [Color -> Contents]
         /\ \A b \in Color : Filled'[b] = IF b \in S THEN v ELSE bytes[b]
         /\ shadowValid' = TRUE
         /\ fill' = NoFill
  BY DEF WriteShadow, Filled

-----------------------------------------------------------------------------
(* The calls.                                                              *)

\* glClear: what the context owes replaces what it covers, and a fill stands
\* for the color.
LEMMA GlClearKeeps ==
  ASSUME IInv, NEW mask \in SUBSET (Bits \cup {Accum}), mask \cap Color \in {{}, Color},
         NEW v \in Values, GlClear(mask, v)
  PROVE  IInv'
<1> DEFINE m == mask \ {Accum}
<1>1. m \in SUBSET Bits /\ \A b \in Bits : b \in mask <=> b \in m
  BY ClearAssumption
<1>2. /\ pendingMask' = pendingMask \cup m
      /\ pendingValue' = [b \in Bits |-> IF b \in m THEN v ELSE pendingValue[b]]
      /\ UNCHANGED graphVars /\ Silent /\ FillShadow(mask, v) /\ Draws(mask, v)
  BY DEF GlClear, Owe
<1>3. /\ drawn' \in [Bits -> Contents] /\ workload' = workload
      /\ \A b \in Bits : drawn'[b] = IF b \in m THEN v ELSE drawn[b]
  BY <1>1, <1>2, Parts DEF Draws, IInv, TypeOK
<1>4. Graph' = Graph
  BY <1>2 DEF graphVars, Graph
<1>5. \A b \in Bits : Composed'[b] = IF b \in m THEN v ELSE Composed[b]
  BY <1>1, <1>2, <1>4 DEF Composed, View
<1>6. TypeOK'
  <2>1. /\ shadow' \in [Color -> Contents] /\ shadowValid' \in BOOLEAN
        /\ fill' \in Values \cup {NoFill} /\ colorIn' \in {"both", "shadow", "gpu"}
    BY <1>2 DEF FillShadow, shadowVars, IInv, TypeOK
  <2>2. shown' \in [Color -> Contents]
    BY <1>2, SilentTyped
  <2> QED
    BY <1>1, <1>2, <1>3, <2>1, <2>2 DEF graphVars, IInv, TypeOK
<1>7. DepthKept'
  BY <1>3, <1>5 DEF IInv, DepthKept, Agree
<1>8. CASE Color \subseteq mask
  <2>1. \A b \in Color : b \in m /\ b \in Bits
    BY <1>1, <1>8, Parts
  <2>2. shadowValid' = TRUE /\ fill' = v /\ colorIn' = "both"
    BY <1>2, <1>8 DEF FillShadow
  <2>3. \A b \in Color : Filled'[b] = v
    BY <2>2, Parts DEF Filled
  <2>4. TargetKept' /\ ShadowKept'
    BY <1>3, <1>5, <2>1, <2>3 DEF TargetKept, ShadowKept, Agree
  <2> QED
    BY <1>4, <1>6, <1>7, <2>2, <2>4 DEF IInv, Places
<1>9. CASE ~(Color \subseteq mask)
  <2>1. \A b \in Color : b \notin m /\ b \in Bits
    BY <1>9, Parts
  <2>2. UNCHANGED shadowVars
    BY <1>2, <1>9 DEF FillShadow
  <2>3. Filled' = Filled /\ shadowValid' = shadowValid /\ fill' = fill /\ colorIn' = colorIn
    BY <2>2 DEF shadowVars, Filled
  <2>4. TargetKept' /\ ShadowKept'
    BY <1>3, <1>5, <2>1, <2>3 DEF IInv, TargetKept, ShadowKept, Agree
  <2> QED
    BY <1>4, <1>6, <1>7, <2>3, <2>4 DEF IInv, Places
<1> QED
  BY <1>8, <1>9

\* The attachments are the color's parts and the others.
LEMMA AgreeBits == ASSUME NEW c, Agree(Bits \ Color, c), Agree(Color, c)
                   PROVE  Agree(Bits, c)
  BY Parts DEF Agree

\* Without "mixed", what the guards of the calls say.
LEMMA Discipline ==
  ASSUME OneTarget, IInv
  PROVE  /\ ShadowCurrent => colorIn # "gpu"
         /\ GpuCurrent <=> colorIn # "shadow"
         /\ {"fboDraw", "readOther", "mixed"} \cap workload.calls = {}
<1>1. workload \in Workloads
  BY DEF IInv, TypeOK
<1>2. workload.calls \cap {"fboDraw", "readOther", "mixed"} = {}
  BY <1>1 DEF OneTarget
<1> QED
  BY <1>2 DEF ShadowCurrent, GpuCurrent

\* The target has everything unless only the shadow has the color.
LEMMA ComposedAgrees == IInv /\ colorIn # "shadow" => Agree(Bits, Composed)
  BY AgreeBits DEF IInv, DepthKept, TargetKept

\* What a translated draw finds in the target is the image.
LEMMA UploadAgrees ==
  ASSUME IInv
  PROVE  LET u == UploadShadow(EncodePendingWork(Graph))
         IN  Encodable(u) /\ Agree(Bits, View(u))
<1> DEFINE e == EncodePendingWork(Graph)
           u == UploadShadow(e)
<1>1. Encodable(e) /\ View(e) = Composed /\ TypeOK
  BY EncodePendingWorkSound DEF IInv
<1> HIDE DEF e
<1>2. /\ Encodable(u)
      /\ shadowValid /\ fill = NoFill =>
            \A b \in Bits : View(u)[b] = IF b \in Color THEN shadow[b] ELSE View(e)[b]
      /\ ~(shadowValid /\ fill = NoFill) => u = e
  BY <1>1, UploadShadowSound
<1> HIDE DEF u
<1>3. CASE shadowValid /\ fill = NoFill
  <2>1. Filled = shadow /\ colorIn # "gpu"
    BY <1>3 DEF Filled, IInv, Places
  <2>2. Agree(Color, shadow) /\ Agree(Bits \ Color, Composed)
    BY <2>1 DEF IInv, ShadowKept, DepthKept
  <2> QED
    BY <1>1, <1>2, <1>3, <2>2, Parts DEF Agree, u, e
<1>4. CASE ~(shadowValid /\ fill = NoFill)
  <2>1. colorIn # "shadow"
    BY <1>4 DEF IInv, Places
  <2> QED
    BY <1>1, <1>2, <1>4, <2>1, ComposedAgrees DEF u, e
<1> QED
  BY <1>3, <1>4

\* A draw by the GPU alone, on top of a target that has the image.
LEMMA GpuDrawKeeps ==
  ASSUME IInv, NEW S \in SUBSET Bits, NEW g, Sound(g), NEW base, Agree(Bits, base),
         \A b \in Bits : View(g)[b] = IF b \in S THEN Ink ELSE base[b],
         AfterPendingWork(g), InvalidateShadow, Draws(S, Ink), Silent
  PROVE  IInv'
<1>1. /\ drawn' \in [Bits -> Contents] /\ workload' = workload
      /\ \A b \in Bits : drawn'[b] = IF b \in S THEN Ink ELSE drawn[b]
  BY DrawsImage, Parts DEF IInv
<1>2. Graph' = g /\ \A b \in Bits : Composed'[b] = View(g)[b]
  BY AfterPendingWorkComposed DEF IInv
<1>3. shadow' = shadow /\ shadowValid' = FALSE /\ fill' = fill /\ colorIn' = "gpu"
  BY DEF InvalidateShadow
<1>4. TypeOK'
  BY <1>1, <1>3, SilentTyped, AfterPendingWorkTyped DEF IInv, TypeOK
<1>5. \A b \in Bits : drawn'[b] \in {Undefined, Composed'[b]}
  BY <1>1, <1>2 DEF Agree
<1>6. DepthKept' /\ TargetKept'
  BY <1>5, Parts DEF DepthKept, TargetKept, Agree
<1>7. ShadowKept' /\ Places'
  BY <1>3 DEF ShadowKept, Places
<1> QED
  BY <1>2, <1>4, <1>6, <1>7 DEF IInv

\* A call that draws or transfers inside the color and leaves its result in
\* the shadow; the target is what g has, with the same result or without.
LEMMA ShadowWriteKeeps ==
  ASSUME IInv, NEW S \in SUBSET Color, NEW v \in Contents,
         TypeOK', Sound(Graph'), Draws(S, v),
         \A b \in Bits \ Color : Composed'[b] = Composed[b],
         NEW bytes \in [Color -> Contents], WriteShadow(bytes, S, v),
         \A b \in Color : b \in S \/ drawn[b] \in {Undefined, bytes[b]},
         \/ colorIn' = "shadow"
         \/ /\ colorIn' \in {"both", "shadow"}
            /\ colorIn' = "both" => /\ Agree(Bits, Composed)
                                    /\ \A b \in Color : Composed'[b] =
                                          IF b \in S THEN v ELSE Composed[b]
  PROVE  IInv'
<1>1. /\ \A b \in Bits : drawn'[b] = IF b \in S THEN v ELSE drawn[b]
  BY DrawsImage, Parts DEF IInv
<1>2. /\ \A b \in Color : Filled'[b] = IF b \in S THEN v ELSE bytes[b]
      /\ shadowValid' = TRUE /\ fill' = NoFill
  BY DEF WriteShadow, Filled
<1>3. DepthKept'
  BY <1>1 DEF DepthKept, IInv, Agree
<1>4. ShadowKept'
  <2>1. \A b \in Color : drawn'[b] = IF b \in S THEN v ELSE drawn[b]
    BY <1>1, Parts
  <2>2. \A b \in Color : drawn'[b] \in {Undefined, Filled'[b]}
    BY <1>2, <2>1
  <2> QED
    BY <2>2 DEF ShadowKept, Agree
<1>5. TargetKept'
  BY <1>1, Parts DEF TargetKept, Agree
<1>6. Places'
  BY <1>2 DEF Places
<1> QED
  BY <1>3, <1>4, <1>5, <1>6 DEF IInv

\* Inside a pass of its own a draw is on top of everything owed.
LEMMA ImmediatePassSound ==
  ASSUME NEW g, Encodable(g), NEW S \in SUBSET Bits
  PROVE  /\ Sound(ImmediatePass(g, S))
         /\ \A b \in Bits : View(ImmediatePass(g, S))[b] = IF b \in S THEN Ink
                                                           ELSE View(g)[b]
<1> DEFINE h == EndRenderPass(g)
           k == [Paint(OpenPass(h), S, Ink) EXCEPT !.encoder = "none"]
<1>1. Encodable(h) /\ h.batch = {} /\ View(h) = View(g)
  BY EndRenderPassSound
<1>2. ImmediatePass(g, S) = k
  BY DEF ImmediatePass
<1> HIDE DEF h
<1>3. Sound(k) /\ \A b \in Bits : View(k)[b] = IF b \in S THEN Ink ELSE View(h)[b]
  BY <1>1, PassSound
<1> HIDE DEF k
<1> QED
  BY <1>1, <1>2, <1>3

LEMMA DrawDefaultKeeps ==
  ASSUME IInv, NEW S \in SUBSET Bits, DrawDefault(S)
  PROVE  IInv'
<1> DEFINE u == UploadShadow(EncodePendingWork(Graph))
           f == FlushBatch(u)
           g == [Paint(OpenPass(f), S, Ink) EXCEPT !.encoder = "default"]
<1>1. Encodable(u) /\ Agree(Bits, View(u))
  BY UploadAgrees
<1>2. AfterPendingWork(g) /\ InvalidateShadow /\ Draws(S, Ink) /\ Silent
  BY DEF DrawDefault
<1> HIDE DEF u
<1>3. Encodable(f) /\ f.batch = {} /\ View(f) = View(u)
  BY <1>1, FlushBatchSound
<1> HIDE DEF f
<1>4. Sound(g) /\ \A b \in Bits : View(g)[b] = IF b \in S THEN Ink ELSE View(f)[b]
  BY <1>3, PassSound
<1> HIDE DEF g
<1> QED
  BY <1>1, <1>2, <1>3, <1>4, GpuDrawKeeps

LEMMA DrawDeferredKeeps ==
  ASSUME IInv, NEW S \in SUBSET Bits, S # {}, DrawDeferred(S)
  PROVE  IInv'
<1> DEFINE u == UploadShadow(EncodePendingWork(Graph))
           g == [u EXCEPT !.batch = u.batch \cup S]
<1>1. Encodable(u) /\ Agree(Bits, View(u))
  BY UploadAgrees
<1>2. AfterPendingWork(g) /\ InvalidateShadow /\ Draws(S, Ink) /\ Silent
  BY DEF DrawDeferred
<1> HIDE DEF u
<1>3. u \in GraphStates /\ u.batch \cup S \in SUBSET Bits
  BY <1>1 DEF Encodable, GraphStates
<1>4. g = [u EXCEPT !.batch = u.batch \cup S]
  OBVIOUS
<1> HIDE DEF g
<1>5. /\ g \in GraphStates /\ g.owedMask = u.owedMask /\ g.owedValue = u.owedValue
      /\ g.batch = u.batch \cup S /\ g.actual = u.actual
      /\ g.encoder = u.encoder /\ g.nested = u.nested
  BY <1>3, <1>4, BatchSound
<1>6. Sound(g)
  BY <1>1, <1>5 DEF Sound, Encodable
<1>7. \A b \in Bits : View(g)[b] = IF b \in S THEN Ink ELSE View(u)[b]
  BY <1>5 DEF View
<1> QED
  BY <1>1, <1>2, <1>6, <1>7, GpuDrawKeeps

LEMMA DrawImmediateKeeps ==
  ASSUME OneTarget, IInv, NEW S \in SUBSET Bits, DrawImmediate(S)
  PROVE  IInv'
<1> DEFINE e == EncodePendingWork(Graph)
           g == ImmediatePass(e, S)
<1>1. Encodable(e) /\ View(e) = Composed
  BY EncodePendingWorkSound DEF IInv
<1>2. AfterPendingWork(g) /\ InvalidateShadow /\ Draws(S, Ink) /\ Silent
  BY DEF DrawImmediate
<1>3. Agree(Bits, Composed)
  BY Discipline, ComposedAgrees DEF DrawImmediate
<1> HIDE DEF e
<1>4. Sound(g) /\ \A b \in Bits : View(g)[b] = IF b \in S THEN Ink ELSE View(e)[b]
  BY <1>1, ImmediatePassSound
<1> HIDE DEF g
<1> QED
  BY <1>1, <1>2, <1>3, <1>4, GpuDrawKeeps

\* A scissored clear: the context owes one of everything, the shadow has it
\* inside only, so that the target is behind.
LEMMA GlClearScissoredKeeps ==
  ASSUME OneTarget, IInv, NEW v \in Values, GlClearScissored(v)
  PROVE  IInv'
<1>1. /\ Owe(Color, v) /\ WriteShadow(Filled, Inside, v)
      /\ colorIn' = "shadow" /\ Draws(Inside, v) /\ colorIn # "gpu"
  BY Discipline DEF GlClearScissored
<1>2. Graph' = Graph
  BY <1>1 DEF Owe, graphVars, Graph
<1>3. \A b \in Bits \ Color : Composed'[b] = Composed[b]
  BY <1>1, <1>2 DEF Owe, Composed, View
<1>4. Filled \in [Color -> Contents] /\ v \in Contents /\ Inside \in SUBSET Color
  BY FilledTyped, Parts DEF IInv
<1>5. TypeOK'
  <2>1. /\ drawn' \in [Bits -> Contents] /\ workload' = workload
    BY <1>1, <1>4, DrawsImage, Parts DEF IInv
  <2>2. shadow' \in [Color -> Contents] /\ shadowValid' = TRUE /\ fill' = NoFill
    BY <1>1, <1>4 DEF WriteShadow
  <2>3. shown' \in [Color -> Contents]
    BY <1>1, SilentTyped DEF Owe
  <2> QED
    BY <1>1, <2>1, <2>2, <2>3, Parts DEF Owe, graphVars, IInv, TypeOK
<1>6. Agree(Color, Filled)
  BY <1>1 DEF IInv, ShadowKept
<1> QED
  BY <1>1, <1>2, <1>3, <1>4, <1>5, <1>6, ShadowWriteKeeps DEF IInv, Agree

\* A transfer into the shadow alone.
LEMMA ShadowOnlyKeeps ==
  ASSUME IInv, NEW S \in SUBSET Color, NEW v \in Values,
         WriteShadow(Filled, S, v), colorIn' = "shadow", Draws(S, v), Silent,
         UNCHANGED <<pendingVars, graphVars>>,
         S = Color \/ colorIn # "gpu"
  PROVE  IInv'
<1>1. Graph' = Graph /\ Composed' = Composed
  BY DEF pendingVars, graphVars, Graph, Composed, View
<1>2. Filled \in [Color -> Contents] /\ v \in Contents
  BY FilledTyped, Parts DEF IInv
<1>3. TypeOK'
  <2>1. drawn' \in [Bits -> Contents] /\ workload' = workload
    BY <1>2, DrawsImage, Parts DEF IInv
  <2>2. shadow' \in [Color -> Contents] /\ shadowValid' = TRUE /\ fill' = NoFill
    BY <1>2 DEF WriteShadow
  <2>3. shown' \in [Color -> Contents]
    BY SilentTyped
  <2> QED
    BY <2>1, <2>2, <2>3 DEF pendingVars, graphVars, IInv, TypeOK
<1>4. \A b \in Color : b \in S \/ drawn[b] \in {Undefined, Filled[b]}
  BY DEF IInv, ShadowKept, Agree
<1> QED
  BY <1>1, <1>2, <1>3, <1>4, ShadowWriteKeeps DEF IInv

LEMMA WritePixelsKeeps ==
  ASSUME OneTarget, IInv, NEW v \in Values, WritePixels(v)
  PROVE  IInv'
  BY Discipline, ShadowOnlyKeeps, Parts DEF WritePixels

LEMMA AccumReturnKeeps ==
  ASSUME IInv, NEW v \in Values, AccumReturn(v)
  PROVE  IInv'
  BY ShadowOnlyKeeps DEF AccumReturn

\* glBitmap paints both, but the target may still owe a clear.
LEMMA BitmapKeeps ==
  ASSUME OneTarget, IInv, NEW v \in Values, Bitmap(v)
  PROVE  IInv'
<1> DEFINE f == FlushPendingClear(Graph)
           h == EndRenderPass(f)
           g == Paint(h, Inside, v)
<1>1. /\ Becomes(g) /\ UNCHANGED pendingVars /\ WriteShadow(Filled, Inside, v)
      /\ colorIn' = "shadow" /\ Draws(Inside, v) /\ Silent /\ colorIn # "gpu"
  BY Discipline DEF Bitmap
<1>2. Filled \in [Color -> Contents] /\ v \in Contents
  BY FilledTyped, Parts DEF IInv
<1>3. Encodable(f) /\ f.owedMask = {} /\ View(f) = View(Graph)
  BY FlushPendingClearSound DEF IInv, Sound
<1> HIDE DEF f
<1>4. Encodable(h) /\ h.batch = {} /\ h.owedMask = {} /\ View(h) = View(f)
  BY <1>3, EndRenderPassSound
<1> HIDE DEF h
<1>11. h \in GraphStates /\ Inside \in SUBSET Bits
  BY <1>4, Parts DEF Encodable
<1>5. /\ g \in GraphStates /\ g.owedMask = {} /\ g.nested = h.nested
      /\ View(g) = [b \in Bits |-> IF b \in Inside THEN v ELSE View(h)[b]]
  BY <1>2, <1>4, <1>11, PaintSound
<1> HIDE DEF g
<1>6. Sound(g)
  BY <1>4, <1>5 DEF Sound, Encodable
<1>7. Graph' = g
  BY <1>1, <1>6, BecomesGraph
<1>8. \A b \in Bits \ Color : Composed'[b] = Composed[b]
  <2>1. \A b \in Bits \ Color : View(g)[b] = View(Graph)[b]
    BY <1>3, <1>4, <1>5, Parts
  <2> QED
    BY <1>1, <1>7, <2>1 DEF Composed, pendingVars
<1>9. TypeOK'
  <2>1. drawn' \in [Bits -> Contents] /\ workload' = workload
    BY <1>1, <1>2, DrawsImage, Parts DEF IInv
  <2>2. shadow' \in [Color -> Contents] /\ shadowValid' = TRUE /\ fill' = NoFill
    BY <1>1, <1>2 DEF WriteShadow
  <2>3. shown' \in [Color -> Contents]
    BY <1>1, SilentTyped
  <2> QED
    BY <1>1, <1>6, <2>1, <2>2, <2>3, PendingKeptTyped DEF IInv
<1>10. \A b \in Color : b \in Inside \/ drawn[b] \in {Undefined, Filled[b]}
  BY <1>1 DEF IInv, ShadowKept, Agree
<1> QED
  BY <1>1, <1>2, <1>6, <1>7, <1>8, <1>9, <1>10, ShadowWriteKeeps, Parts

\* A draw by the GPU that is repeated in the shadow.
LEMMA MirroredKeeps ==
  ASSUME IInv, NEW g, Sound(g), AfterPendingWork(g),
         \A b \in Bits : View(g)[b] = IF b \in Inside THEN Ink ELSE Composed[b],
         NEW bytes \in [Color -> Contents], WriteShadow(bytes, Inside, Ink),
         Agree(Color, bytes), Draws(Inside, Ink), Silent,
         colorIn' \in {"both", "shadow"},
         colorIn' = "both" => Agree(Bits, Composed)
  PROVE  IInv'
<1>1. Ink \in Contents /\ Inside \in SUBSET Color
  BY Parts
<1>2. Graph' = g /\ \A b \in Bits : Composed'[b] = View(g)[b]
  BY AfterPendingWorkComposed DEF IInv
<1>3. TypeOK'
  <2>1. drawn' \in [Bits -> Contents] /\ workload' = workload
    BY DrawsImage, Parts DEF IInv
  <2>2. shadow' \in [Color -> Contents] /\ shadowValid' = TRUE /\ fill' = NoFill
    BY <1>1 DEF WriteShadow
  <2>3. shown' \in [Color -> Contents]
    BY SilentTyped
  <2> QED
    BY <2>1, <2>2, <2>3, AfterPendingWorkTyped DEF IInv
<1>4. \A b \in Color : b \in Inside \/ drawn[b] \in {Undefined, bytes[b]}
  BY DEF Agree
<1>5. /\ \A b \in Bits \ Color : Composed'[b] = Composed[b]
      /\ \A b \in Color : Composed'[b] = IF b \in Inside THEN Ink ELSE Composed[b]
  BY <1>2, Parts
<1>6. Sound(Graph')
  BY <1>2
<1> QED
  BY <1>1, <1>3, <1>4, <1>5, <1>6, ShadowWriteKeeps

\* When the shadow is not valid, the target has everything and is read back.
LEMMA SettledBytes ==
  ASSUME IInv, ~shadowValid
  PROVE  /\ Sound(Settled)
         /\ View(Settled) = Composed
         /\ GpuColor(Settled) \in [Color -> Contents]
         /\ Agree(Bits, Composed)
         /\ Agree(Color, GpuColor(Settled))
<1>1. /\ Sound(Settled) /\ View(Settled) = Composed
      /\ GpuColor(Settled) \in [Color -> Contents]
      /\ \A b \in Color : GpuColor(Settled)[b] = Composed[b]
  BY SettledSound DEF IInv
<1>2. Agree(Bits, Composed)
  BY ComposedAgrees DEF IInv, Places
<1>3. Agree(Color, GpuColor(Settled))
  BY <1>1, <1>2, Parts DEF Agree
<1> QED
  BY <1>1, <1>2, <1>3

\* A mirrored draw into a valid shadow.
LEMMA MirroredValidKeeps ==
  ASSUME IInv, shadowValid, UNCHANGED colorIn,
         AfterPendingWork(ImmediatePass(EncodePendingWork(Graph), Inside)),
         WriteShadow(Filled, Inside, Ink), Draws(Inside, Ink), Silent
  PROVE  IInv'
<1> DEFINE e == EncodePendingWork(Graph)
           g == ImmediatePass(e, Inside)
<1>1. Encodable(e) /\ View(e) = Composed
  BY EncodePendingWorkSound DEF IInv
<1>2. AfterPendingWork(g)
  OBVIOUS
<1> HIDE DEF e
<1>3. /\ Sound(g)
      /\ \A b \in Bits : View(g)[b] = IF b \in Inside THEN Ink ELSE Composed[b]
  BY <1>1, ImmediatePassSound, Parts
<1> HIDE DEF g
<1>4. colorIn' \in {"both", "shadow"} /\ Filled \in [Color -> Contents]
  BY FilledTyped DEF IInv, Places, TypeOK
<1>5. Agree(Color, Filled) /\ (colorIn' = "both" => Agree(Bits, Composed))
  BY <1>4, ComposedAgrees DEF IInv, ShadowKept
<1> QED
  BY <1>2, <1>3, <1>4, <1>5, MirroredKeeps

LEMMA DrawRectKeeps ==
  ASSUME IInv, DrawRect
  PROVE  IInv'
<1>1. CASE shadowValid
  BY <1>1, MirroredValidKeeps DEF DrawRect
<1>2. CASE ~shadowValid
  <2> DEFINE e == EncodePendingWork(Graph)
             g == ImmediatePass(e, Inside)
  <2>1. Encodable(e) /\ View(e) = Composed
    BY EncodePendingWorkSound DEF IInv
  <2>2. AfterPendingWork(g) /\ Draws(Inside, Ink) /\ Silent /\ InvalidateShadow
    BY <1>2 DEF DrawRect
  <2> HIDE DEF e
  <2>3. /\ Sound(g)
        /\ \A b \in Bits : View(g)[b] = IF b \in Inside THEN Ink ELSE View(e)[b]
    BY <2>1, ImmediatePassSound, Parts
  <2> HIDE DEF g
  <2>4. Agree(Bits, Composed)
    BY <1>2, SettledBytes
  <2> QED
    BY <2>1, <2>2, <2>3, <2>4, GpuDrawKeeps, Parts
<1> QED
  BY <1>1, <1>2

LEMMA DrawLinesKeeps ==
  ASSUME IInv, DrawLines
  PROVE  IInv'
<1>1. CASE shadowValid
  BY <1>1, MirroredValidKeeps DEF DrawLines
<1>2. CASE ~shadowValid
  <2> DEFINE g == ImmediatePass(Settled, Inside)
  <2>1. /\ Sound(Settled) /\ View(Settled) = Composed /\ Agree(Bits, Composed)
        /\ GpuColor(Settled) \in [Color -> Contents] /\ Agree(Color, GpuColor(Settled))
    BY <1>2, SettledBytes
  <2>2. /\ Sound(g)
        /\ \A b \in Bits : View(g)[b] = IF b \in Inside THEN Ink ELSE Composed[b]
    BY <2>1, ImmediatePassSound, Parts DEF Sound
  <2>3. /\ AfterPendingWork(g) /\ WriteShadow(GpuColor(Settled), Inside, Ink)
        /\ colorIn' = "both" /\ Draws(Inside, Ink) /\ Silent
    BY <1>2 DEF DrawLines
  <2> HIDE DEF g
  <2> QED
    BY <2>1, <2>2, <2>3, MirroredKeeps
<1> QED
  BY <1>1, <1>2

LEMMA BlitToDefaultKeeps ==
  ASSUME IInv, NEW v \in Values, BlitToDefault(v)
  PROVE  IInv'
<1>1. CASE shadowValid
  <2>1. colorIn # "gpu" /\ Inside \in SUBSET Color
    BY <1>1, Parts DEF IInv, Places
  <2> QED
    BY <1>1, <2>1, ShadowOnlyKeeps DEF BlitToDefault
<1>2. CASE ~shadowValid
  <2>1. /\ Sound(Settled) /\ View(Settled) = Composed
        /\ GpuColor(Settled) \in [Color -> Contents] /\ Agree(Color, GpuColor(Settled))
    BY <1>2, SettledBytes
  <2>2. /\ AfterPendingWork(Settled) /\ WriteShadow(GpuColor(Settled), Inside, v)
        /\ colorIn' = "shadow" /\ Draws(Inside, v) /\ Silent
    BY <1>2 DEF BlitToDefault
  <2>3. v \in Contents /\ Inside \in SUBSET Color
    BY Parts
  <2>4. Graph' = Settled /\ \A b \in Bits : Composed'[b] = Composed[b]
    BY <2>1, <2>2, AfterPendingWorkComposed DEF IInv
  <2>5. TypeOK'
    <3>1. drawn' \in [Bits -> Contents] /\ workload' = workload
      BY <2>2, <2>3, DrawsImage, Parts DEF IInv
    <3>2. shadow' \in [Color -> Contents] /\ shadowValid' = TRUE /\ fill' = NoFill
      BY <2>1, <2>2, <2>3 DEF WriteShadow
    <3>3. shown' \in [Color -> Contents]
      BY <2>2, SilentTyped
    <3> QED
      BY <2>1, <2>2, <3>1, <3>2, <3>3, AfterPendingWorkTyped DEF IInv
  <2>6. \A b \in Color : b \in Inside \/ drawn[b] \in {Undefined, GpuColor(Settled)[b]}
    BY <2>1 DEF Agree
  <2>7. Sound(Graph') /\ \A b \in Bits \ Color : Composed'[b] = Composed[b]
    BY <2>1, <2>4
  <2> QED
    BY <2>1, <2>2, <2>3, <2>5, <2>6, <2>7, ShadowWriteKeeps
<1> QED
  BY <1>1, <1>2

\* A resolve replaces the color; the context owes none of it.
LEMMA ResolveToDefaultKeeps ==
  ASSUME OneTarget, IInv, ResolveToDefault
  PROVE  IInv'
<1> DEFINE h == EndRenderPass(Graph)
           f == FlushPendingClear(h)
           g == Paint(f, Color, Ink)
<1>1. /\ Becomes(g) /\ UNCHANGED <<pendingVars, shadow>>
      /\ shadowValid' = FALSE /\ fill' = NoFill /\ colorIn' = "gpu"
      /\ Draws(Color, Ink) /\ Silent
  BY DEF ResolveToDefault
<1>2. pendingMask \cap Color = {}
  BY Discipline DEF ResolveToDefault
<1>3. Encodable(h) /\ h.batch = {} /\ View(h) = View(Graph)
  BY EndRenderPassSound DEF IInv, Sound
<1> HIDE DEF h
<1>4. Encodable(f) /\ f.batch = {} /\ f.owedMask = {} /\ View(f) = View(h)
  BY <1>3, FlushPendingClearSound
<1> HIDE DEF f
<1>5. f \in GraphStates /\ Color \in SUBSET Bits /\ Ink \in Contents
  BY <1>4, Parts DEF Encodable
<1>6. /\ g \in GraphStates /\ g.owedMask = {} /\ g.nested = f.nested
      /\ View(g) = [b \in Bits |-> IF b \in Color THEN Ink ELSE View(f)[b]]
  <2>1. /\ g \in GraphStates /\ g.owedMask = f.owedMask /\ g.nested = f.nested
        /\ f.owedMask = {} /\ f.batch = {} =>
              View(g) = [b \in Bits |-> IF b \in Color THEN Ink ELSE View(f)[b]]
    BY <1>5, PaintSound
  <2> QED
    BY <1>4, <2>1
<1> HIDE DEF g
<1>7. Sound(g) /\ Graph' = g
  BY <1>1, <1>4, <1>6, BecomesGraph DEF Sound, Encodable
<1>8. /\ drawn' \in [Bits -> Contents] /\ workload' = workload
      /\ \A b \in Bits : drawn'[b] = IF b \in Color THEN Ink ELSE drawn[b]
  <2>1. TypeOK
    BY DEF IInv
  <2> QED
    BY <1>1, <1>5, <2>1, DrawsImage
<1>9. \A b \in Bits : Composed'[b] = IF b \in Color THEN Ink ELSE Composed[b]
  <2>1. \A b \in Bits : View(g)[b] = IF b \in Color THEN Ink ELSE View(Graph)[b]
    BY <1>3, <1>4, <1>6
  <2>2. \A b \in Color : b \notin pendingMask
    BY <1>2
  <2> QED
    BY <1>1, <1>7, <2>1, <2>2 DEF Composed, pendingVars
<1>10. TypeOK'
  BY <1>1, <1>7, <1>8, SilentTyped, PendingKeptTyped DEF IInv, TypeOK
<1>11. DepthKept' /\ TargetKept'
  BY <1>5, <1>8, <1>9 DEF IInv, DepthKept, TargetKept, Agree
<1>12. ShadowKept' /\ Places'
  BY <1>1 DEF ShadowKept, Places
<1> QED
  BY <1>7, <1>10, <1>11, <1>12 DEF IInv

\* Encoding everything without drawing.
LEMMA SettleKeeps ==
  ASSUME IInv, AfterPendingWork(Settled), drawn' = drawn, workload' = workload,
         shadow' \in [Color -> Contents], shadowValid' = shadowValid,
         fill' = fill \/ fill' = NoFill, colorIn' = colorIn,
         Filled' = Filled, shown' \in [Color -> Contents]
  PROVE  IInv'
<1>1. Sound(Settled) /\ View(Settled) = Composed
  BY SettledSound DEF IInv
<1>2. Graph' = Settled /\ \A b \in Bits : Composed'[b] = Composed[b]
  BY <1>1, AfterPendingWorkComposed DEF IInv
<1>3. TypeOK'
  BY <1>1, AfterPendingWorkTyped DEF IInv, TypeOK
<1>4. DepthKept' /\ TargetKept' /\ ShadowKept'
  BY <1>2, Parts DEF IInv, DepthKept, TargetKept, ShadowKept, Agree
<1>5. Places'
  BY DEF IInv, Places
<1> QED
  BY <1>1, <1>2, <1>3, <1>4, <1>5 DEF IInv

LEMMA PresentKeeps == ASSUME IInv, Present PROVE IInv'
<1>1. /\ AfterPendingWork(Settled) /\ UNCHANGED <<shadowVars, drawn, workload>>
      /\ shown' = IF GpuCurrent THEN GpuColor(Settled) ELSE [b \in Color |-> Undefined]
  BY DEF Present
<1>2. GpuColor(Settled) \in [Color -> Contents]
  BY SettledSound DEF IInv
<1>3. shown' \in [Color -> Contents]
  BY <1>1, <1>2, Parts
<1>4. /\ shadow' = shadow /\ shadowValid' = shadowValid /\ fill' = fill
      /\ colorIn' = colorIn /\ Filled' = Filled
  BY <1>1 DEF shadowVars, Filled
<1>5. shadow \in [Color -> Contents]
  BY DEF IInv, TypeOK
<1> QED
  BY <1>1, <1>3, <1>4, <1>5, SettleKeeps

LEMMA FinishKeeps == ASSUME IInv, Finish PROVE IInv'
<1>1. /\ AfterPendingWork(Settled) /\ UNCHANGED <<shadowVars, drawn, workload>> /\ Silent
  BY DEF Finish
<1>2. shown' \in [Color -> Contents]
  BY <1>1, SilentTyped
<1>3. /\ shadow' = shadow /\ shadowValid' = shadowValid /\ fill' = fill
      /\ colorIn' = colorIn /\ Filled' = Filled
  BY <1>1 DEF shadowVars, Filled
<1>4. shadow \in [Color -> Contents]
  BY DEF IInv, TypeOK
<1> QED
  BY <1>1, <1>2, <1>3, <1>4, SettleKeeps

\* A read writes the fill to the shadow.
LEMMA ReadPixelsKeeps == ASSUME IInv, ReadPixels PROVE IInv'
<1>1. /\ shadow' = Filled /\ fill' = NoFill
      /\ shadowValid' = shadowValid /\ colorIn' = colorIn
      /\ drawn' = drawn /\ workload' = workload
  BY DEF ReadPixels
<1>2. Filled \in [Color -> Contents] /\ Filled' = Filled
  BY <1>1, FilledTyped DEF IInv, Filled
<1>3. CASE ~shadowValid
  <2>1. shown' = GpuColor(Settled) /\ AfterPendingWork(Settled)
    BY <1>3 DEF ReadPixels
  <2>2. shown' \in [Color -> Contents]
    BY <2>1, SettledSound DEF IInv
  <2> QED
    BY <1>1, <1>2, <2>1, <2>2, SettleKeeps
<1>4. CASE shadowValid
  <2>1. shown' = Filled /\ UNCHANGED <<pendingVars, graphVars>>
    BY <1>4 DEF ReadPixels
  <2>2. Graph' = Graph /\ Composed' = Composed
    BY <2>1 DEF pendingVars, graphVars, Graph, Composed, View
  <2>3. TypeOK'
    BY <1>1, <1>2, <2>1 DEF pendingVars, graphVars, IInv, TypeOK
  <2>4. DepthKept' /\ TargetKept' /\ ShadowKept' /\ Places'
    BY <1>1, <1>2, <2>2
    DEF IInv, DepthKept, TargetKept, ShadowKept, Places, Agree
  <2> QED
    BY <2>2, <2>3, <2>4 DEF IInv
<1> QED
  BY <1>3, <1>4

\* Rotating the command buffer encodes the batch and keeps what is owed.
LEMMA PressureFlushKeeps == ASSUME IInv, PressureFlush PROVE IInv'
<1> DEFINE g == EndRenderPass(Graph)
<1>1. /\ Becomes(g) /\ Silent
      /\ UNCHANGED <<pendingVars, shadowVars, drawn, workload>>
  BY DEF PressureFlush
<1>2. Encodable(g) /\ g.batch = {} /\ g.owedMask = {} /\ View(g) = View(Graph)
  BY EndRenderPassSound DEF IInv, Sound
<1> HIDE DEF g
<1>3. Sound(g) /\ Graph' = g
  BY <1>1, <1>2, BecomesGraph DEF Sound
<1>4. Composed' = Composed /\ Filled' = Filled
  BY <1>1, <1>2, <1>3 DEF Composed, pendingVars, shadowVars, Filled
<1>5. TypeOK'
  BY <1>1, <1>3, SilentTyped, PendingKeptTyped DEF shadowVars, IInv, TypeOK
<1>6. DepthKept' /\ TargetKept' /\ ShadowKept' /\ Places'
  BY <1>1, <1>4
  DEF shadowVars, IInv, DepthKept, TargetKept, ShadowKept, Places, Agree
<1> QED
  BY <1>3, <1>5, <1>6 DEF IInv

\* A resize: what is not owed is undefined.
LEMMA ResizeKeeps == ASSUME IInv, Resize PROVE IInv'
<1> DEFINE h == EndRenderPass(Graph)
           a == [b \in Bits |-> Undefined]
           g == [h EXCEPT !.actual = a]
<1>1. /\ Becomes(g) /\ Silent
      /\ drawn' = [b \in Bits |-> IF b \in pendingMask \cup h.owedMask
                                  THEN drawn[b] ELSE Undefined]
      /\ UNCHANGED <<pendingVars, shadowVars, workload>>
  BY DEF Resize
<1>2. Encodable(h) /\ h.batch = {} /\ h.owedMask = {} /\ View(h) = View(Graph)
  BY EndRenderPassSound DEF IInv, Sound
<1>3. a \in [Bits -> Contents]
  BY Parts
<1> HIDE DEF h, a
<1>4. g = [owedMask |-> h.owedMask, owedValue |-> h.owedValue, batch |-> h.batch,
           actual |-> a, encoder |-> h.encoder, nested |-> h.nested]
  BY <1>2 DEF Encodable, GraphStates
<1> HIDE DEF g
<1>5. Sound(g)
  BY <1>2, <1>3, <1>4 DEF Sound, Encodable, GraphStates
<1>6. Graph' = g
  BY <1>1, <1>5, BecomesGraph
<1>7. /\ drawn' \in [Bits -> Contents]
      /\ \A b \in Bits : /\ b \in pendingMask => drawn'[b] = drawn[b]
                         /\ b \notin pendingMask => drawn'[b] = Undefined
  BY <1>1, <1>2, Parts DEF IInv, TypeOK
<1>8. \A b \in pendingMask : Composed'[b] = Composed[b]
  BY <1>1 DEF Composed, pendingVars, IInv, TypeOK
<1>9. TypeOK'
  BY <1>1, <1>5, <1>7, SilentTyped, PendingKeptTyped DEF shadowVars, IInv, TypeOK
<1>10. shadowValid' = shadowValid /\ fill' = fill /\ colorIn' = colorIn /\ Filled' = Filled
  BY <1>1 DEF shadowVars, Filled
<1>11. DepthKept' /\ TargetKept'
  BY <1>7, <1>8, <1>10, Parts DEF IInv, DepthKept, TargetKept, Agree
<1>12. ShadowKept' /\ Places'
  BY <1>7, <1>10, Parts DEF IInv, ShadowKept, Places, Agree
<1> QED
  BY <1>5, <1>6, <1>9, <1>11, <1>12 DEF IInv

-----------------------------------------------------------------------------
(* The specification.                                                      *)

\* A step that changes nothing.
LEMMA StutterKeeps == ASSUME IInv, UNCHANGED vars PROVE IInv'
<1>1. /\ UNCHANGED <<pendingVars, graphVars, shadowVars>>
      /\ UNCHANGED <<drawn, shown, workload>>
  BY DEF vars
<1>2. Graph' = Graph /\ Composed' = Composed /\ Filled' = Filled
  BY <1>1 DEF pendingVars, graphVars, shadowVars, Graph, Composed, View, Filled
<1>3. TypeOK'
  BY <1>1 DEF pendingVars, graphVars, shadowVars, IInv, TypeOK
<1>4. DepthKept' /\ TargetKept' /\ ShadowKept' /\ Places'
  BY <1>1, <1>2
  DEF shadowVars, IInv, DepthKept, TargetKept, ShadowKept, Places, Agree
<1> QED
  BY <1>2, <1>3, <1>4 DEF IInv

\* One step per call.
LEMMA NextIInv ==
  ASSUME OneTarget, InsideNonempty, IInv, [Next]_vars
  PROVE  IInv'
<1>1. Inside \in SUBSET Bits /\ Bits \in SUBSET Bits /\ Inside # {} /\ Bits # {}
  BY Parts DEF InsideNonempty
<1>2. {"fboDraw", "readOther", "mixed"} \cap workload.calls = {}
  BY Discipline
<1>3. ASSUME NEW mask \in workload.masks, NEW v \in Values, GlClear(mask, v)
      PROVE  IInv'
  <2>1. mask \in SUBSET (Bits \cup {Accum}) /\ mask \cap Color \in {{}, Color}
    BY ClearAssumption DEF IInv, TypeOK
  <2> QED
    BY <1>3, <2>1, GlClearKeeps
<1>4. ASSUME NEW S \in {Inside, Bits}, DrawDefault(S) PROVE IInv'
  BY <1>1, <1>4, DrawDefaultKeeps
<1>5. ASSUME NEW S \in {Inside, Bits}, DrawDeferred(S) PROVE IInv'
  BY <1>1, <1>5, DrawDeferredKeeps
<1>6. ASSUME NEW S \in {Inside, Bits}, DrawImmediate(S) PROVE IInv'
  BY <1>1, <1>6, DrawImmediateKeeps
<1>7. CASE DrawRect
  BY <1>7, DrawRectKeeps
<1>8. CASE DrawLines
  BY <1>8, DrawLinesKeeps
<1>9. CASE DrawFbo
  BY <1>2, <1>9 DEF DrawFbo
<1>10. ASSUME NEW v \in Values, GlClearScissored(v) PROVE IInv'
  BY <1>10, GlClearScissoredKeeps
<1>11. ASSUME NEW v \in Values, Bitmap(v) PROVE IInv'
  BY <1>11, BitmapKeeps
<1>12. ASSUME NEW v \in Values, WritePixels(v) PROVE IInv'
  BY <1>12, WritePixelsKeeps
<1>13. ASSUME NEW v \in Values, AccumReturn(v) PROVE IInv'
  BY <1>13, AccumReturnKeeps
<1>14. ASSUME NEW v \in Values, BlitToDefault(v) PROVE IInv'
  BY <1>14, BlitToDefaultKeeps
<1>15. CASE ResolveToDefault
  BY <1>15, ResolveToDefaultKeeps
<1>16. CASE Present
  BY <1>16, PresentKeeps
<1>17. CASE Finish
  BY <1>17, FinishKeeps
<1>18. CASE ReadPixels
  BY <1>18, ReadPixelsKeeps
<1>19. CASE ReadConverted
  BY <1>2, <1>19 DEF ReadConverted
<1>20. CASE PressureFlush
  BY <1>20, PressureFlushKeeps
<1>21. CASE Resize
  BY <1>21, ResizeKeeps
<1>22. CASE UNCHANGED vars
  BY <1>22, StutterKeeps
<1> QED
  BY <1>3, <1>4, <1>5, <1>6, <1>7, <1>8, <1>9, <1>10, <1>11, <1>12, <1>13, <1>14,
     <1>15, <1>16, <1>17, <1>18, <1>19, <1>20, <1>21, <1>22 DEF Next

LEMMA SpecIInv ==
  ASSUME OneTarget, InsideNonempty
  PROVE  Spec => []IInv
<1>1. Init => IInv
  BY InitIInv
<1>2. IInv /\ [Next]_vars => IInv'
  BY NextIInv
<1> QED
  BY <1>1, <1>2, PTL DEF Spec

\* Every variable keeps its type.
THEOREM SpecTypeOK ==
  ASSUME OneTarget, InsideNonempty
  PROVE  Spec => []TypeOK
<1>1. IInv => TypeOK
  BY DEF IInv
<1> QED
  BY <1>1, SpecIInv, PTL

\* flushPendingClear never opens its encoder while another one encodes:
\* whatever is owed is owed to a batch or to a closed pass.
THEOREM SpecNoNestedEncoder ==
  ASSUME OneTarget, InsideNonempty
  PROVE  Spec => []NoNestedEncoder
<1>1. IInv => NoNestedEncoder
  BY DEF IInv, Sound, Encodable, Graph, NoNestedEncoder
<1> QED
  BY <1>1, SpecIInv, PTL

\* What is current: the shadow's color while that is valid, otherwise what is
\* composed of the target and all that is owed.
LEMMA ImageAgrees == IInv => NothingLost
<1> SUFFICES ASSUME IInv, NEW b \in Bits PROVE drawn[b] \in {Undefined, Image[b]}
  BY DEF NothingLost
<1>1. CASE b \in Color /\ shadowValid
  <2>1. Image[b] = Filled[b]
    BY <1>1 DEF Image
  <2>2. colorIn # "gpu"
    BY <1>1 DEF IInv, Places
  <2> QED
    BY <1>1, <2>1, <2>2 DEF IInv, ShadowKept, Agree
<1>2. CASE ~(b \in Color /\ shadowValid)
  <2>1. Image[b] = Composed[b]
    BY <1>2 DEF Image, Composed, View, Graph
  <2>2. b \notin Color \/ colorIn # "shadow"
    BY <1>2 DEF IInv, Places
  <2> QED
    BY <2>1, <2>2 DEF IInv, DepthKept, TargetKept, Agree
<1> QED
  BY <1>1, <1>2

\* No clear, draw or transfer is lost, repeated or applied late, through any
\* number of deferrals in the context, in the frame graph and in the shadow.
THEOREM SpecNothingLost ==
  ASSUME OneTarget, InsideNonempty
  PROVE  Spec => []NothingLost
  BY SpecIInv, ImageAgrees, PTL

-----------------------------------------------------------------------------
(* What is shown.                                                          *)

\* A call that shows nothing changes the image by a write, a draw or a resize.
LEMMA SilentWrites ==
  ASSUME NEW S \in SUBSET Bits, NEW v \in Values \cup {Ink, Undefined}, Silent,
         drawn' = [b \in Bits |-> IF b \in S THEN v ELSE drawn[b]]
  PROVE  Framebuffer!FbNext
  BY DEF Silent, Framebuffer!FbNext, Framebuffer!FbWrite, Framebuffer!FbDraw,
         Framebuffer!FbResize

\* So does one that leaves the image alone.
LEMMA SilentKeeps ==
  ASSUME IInv, Silent, drawn' = drawn
  PROVE  Framebuffer!FbNext
<1>1. drawn' = [b \in Bits |-> IF b \in {} THEN First ELSE drawn[b]]
  BY DEF IInv, TypeOK
<1>2. {} \in SUBSET Bits /\ First \in Values \cup {Ink, Undefined}
  BY Parts
<1> QED
  BY <1>1, <1>2, SilentWrites

\* A read or a present shows a color that agrees with the image.
LEMMA ShowsImage ==
  ASSUME NEW c \in [Color -> Contents], Agree(Color, c), shown' = c, drawn' = drawn
  PROVE  Framebuffer!FbNext
<1>1. Framebuffer!FbShow
  BY DEF Framebuffer!FbShow, Agree, Contents
<1> QED
  BY <1>1 DEF Framebuffer!FbNext

\* What a read or present takes from the target.
LEMMA SettledAgrees ==
  ASSUME IInv, colorIn # "shadow"
  PROVE  GpuColor(Settled) \in [Color -> Contents] /\ Agree(Color, GpuColor(Settled))
<1>1. /\ GpuColor(Settled) \in [Color -> Contents]
      /\ \A b \in Color : GpuColor(Settled)[b] = Composed[b]
  BY SettledSound DEF IInv
<1>2. Agree(Color, Composed)
  BY DEF IInv, TargetKept
<1> QED
  BY <1>1, <1>2 DEF Agree

LEMMA PresentShows ==
  ASSUME OneTarget, IInv, Present
  PROVE  Framebuffer!FbNext
<1>1. drawn' = drawn
  BY DEF Present
<1>2. CASE GpuCurrent
  <2>1. shown' = GpuColor(Settled) /\ colorIn # "shadow"
    BY <1>2, Discipline DEF Present
  <2> QED
    BY <1>1, <2>1, SettledAgrees, ShowsImage
<1>3. CASE ~GpuCurrent
  <2>1. Silent
    BY <1>3 DEF Present, Silent
  <2> QED
    BY <1>1, <2>1, SilentKeeps
<1> QED
  BY <1>2, <1>3

LEMMA ReadPixelsShows ==
  ASSUME IInv, ReadPixels
  PROVE  Framebuffer!FbNext
<1>1. drawn' = drawn
  BY DEF ReadPixels
<1>2. CASE shadowValid
  <2>1. shown' = Filled /\ colorIn # "gpu"
    BY <1>2 DEF ReadPixels, IInv, Places
  <2>2. Filled \in [Color -> Contents] /\ Agree(Color, Filled)
    BY <2>1, FilledTyped DEF IInv, ShadowKept
  <2> QED
    BY <1>1, <2>1, <2>2, ShowsImage
<1>3. CASE ~shadowValid
  <2>1. shown' = GpuColor(Settled) /\ colorIn # "shadow"
    BY <1>3 DEF ReadPixels, IInv, Places
  <2> QED
    BY <1>1, <2>1, SettledAgrees, ShowsImage
<1> QED
  BY <1>2, <1>3

\* glClear: the accumulation bit stands for no attachment.
LEMMA GlClearShows ==
  ASSUME IInv, NEW mask \in SUBSET (Bits \cup {Accum}), NEW v \in Values,
         GlClear(mask, v)
  PROVE  Framebuffer!FbNext
<1> DEFINE m == mask \ {Accum}
<1>1. m \in SUBSET Bits /\ \A b \in Bits : b \in mask <=> b \in m
  BY ClearAssumption
<1>2. Silent /\ drawn' = [b \in Bits |-> IF b \in m THEN v ELSE drawn[b]]
  BY <1>1 DEF GlClear, Owe, Draws
<1> QED
  BY <1>1, <1>2, SilentWrites

LEMMA ResizeShows ==
  ASSUME IInv, Resize
  PROVE  Framebuffer!FbNext
<1> DEFINE kept == pendingMask \cup EndRenderPass(Graph).owedMask
           rest == Bits \ kept
<1>1. Silent /\ drawn' = [b \in Bits |-> IF b \in kept THEN drawn[b] ELSE Undefined]
  BY DEF Resize
<1>2. drawn' = [b \in Bits |-> IF b \in rest THEN Undefined ELSE drawn[b]]
  BY <1>1
<1>3. rest \in SUBSET Bits /\ Undefined \in Values \cup {Ink, Undefined}
  OBVIOUS
<1> HIDE DEF rest
<1> QED
  BY <1>1, <1>2, <1>3, SilentWrites

\* The deferred framebuffer implements the immediate one: every call is one of
\* its writes or shows the color it has.
LEMMA NextImage ==
  ASSUME OneTarget, IInv, [Next]_vars
  PROVE  [Framebuffer!FbNext]_(Framebuffer!fbVars)
<1>1. /\ Inside \in SUBSET Bits /\ Bits \in SUBSET Bits /\ Color \in SUBSET Bits
      /\ Ink \in Values \cup {Ink, Undefined}
  BY Parts
<1>2. {"fboDraw", "readOther", "mixed"} \cap workload.calls = {}
  BY Discipline
<1>3. ASSUME NEW mask \in workload.masks, NEW v \in Values, GlClear(mask, v)
      PROVE  Framebuffer!FbNext
  <2>1. mask \in SUBSET (Bits \cup {Accum})
    BY ClearAssumption DEF IInv, TypeOK
  <2> QED
    BY <1>3, <2>1, GlClearShows
<1>4. ASSUME NEW S \in {Inside, Bits}, DrawDefault(S) \/ DrawDeferred(S) \/ DrawImmediate(S)
      PROVE  Framebuffer!FbNext
  <2>1. Silent /\ drawn' = [b \in Bits |-> IF b \in S THEN Ink ELSE drawn[b]]
    BY <1>4 DEF DrawDefault, DrawDeferred, DrawImmediate, Draws
  <2> QED
    BY <1>1, <2>1, SilentWrites
<1>5. CASE DrawRect \/ DrawLines
  <2>1. Silent /\ drawn' = [b \in Bits |-> IF b \in Inside THEN Ink ELSE drawn[b]]
    BY <1>5 DEF DrawRect, DrawLines, Draws
  <2> QED
    BY <1>1, <2>1, SilentWrites
<1>6. CASE DrawFbo \/ ReadConverted
  BY <1>2, <1>6 DEF DrawFbo, ReadConverted
<1>7. ASSUME NEW v \in Values, \/ GlClearScissored(v) \/ Bitmap(v) \/ WritePixels(v)
                               \/ BlitToDefault(v)
      PROVE  Framebuffer!FbNext
  <2>1. Silent /\ drawn' = [b \in Bits |-> IF b \in Inside THEN v ELSE drawn[b]]
    BY <1>7 DEF GlClearScissored, Owe, Bitmap, WritePixels, BlitToDefault, Draws
  <2> QED
    BY <1>1, <2>1, SilentWrites
<1>8. ASSUME NEW v \in Values, AccumReturn(v) PROVE Framebuffer!FbNext
  <2>1. Silent /\ drawn' = [b \in Bits |-> IF b \in Color THEN v ELSE drawn[b]]
    BY <1>8 DEF AccumReturn, Draws
  <2> QED
    BY <1>1, <2>1, SilentWrites
<1>9. CASE ResolveToDefault
  <2>1. Silent /\ drawn' = [b \in Bits |-> IF b \in Color THEN Ink ELSE drawn[b]]
    BY <1>9 DEF ResolveToDefault, Draws
  <2> QED
    BY <1>1, <2>1, SilentWrites
<1>10. CASE Present
  BY <1>10, PresentShows
<1>11. CASE Finish \/ PressureFlush
  <2>1. Silent /\ drawn' = drawn
    BY <1>11 DEF Finish, PressureFlush
  <2> QED
    BY <2>1, SilentKeeps
<1>12. CASE ReadPixels
  BY <1>12, ReadPixelsShows
<1>13. CASE Resize
  BY <1>13, ResizeShows
<1>14. CASE UNCHANGED vars
  BY <1>14 DEF vars, Framebuffer!fbVars
<1> QED
  BY <1>3, <1>4, <1>5, <1>6, <1>7, <1>8, <1>9, <1>10, <1>11, <1>12, <1>13, <1>14
  DEF Next

\* Neither the deferral nor the shadow can be seen: what reads and presents
\* show is what OpenGL's immediate clears, draws and transfers have left.
THEOREM SpecImage ==
  ASSUME OneTarget, InsideNonempty
  PROVE  Spec => ImageSpec
<1>1. Init => Framebuffer!FbInit
  BY DEF Init, Framebuffer!FbInit
<1>2. IInv /\ [Next]_vars => [Framebuffer!FbNext]_(Framebuffer!fbVars)
  BY NextImage
<1> QED
  BY <1>1, <1>2, SpecIInv, PTL DEF Spec, ImageSpec, Framebuffer!FbSpec

-----------------------------------------------------------------------------
(* Deferred framebuffer clears.                                            *)

\* What the theorems about FboClearRegistry suppose of an application: no two
\* coverages it clears overlap, and it draws to no separate stencil image.
DisjointCoverages ==
    \A c, d \in Clears : c # d => PlanesOf(c) \cap PlanesOf(d) = {}
NoStencilImage == \A p \in Passes : p.stencil = NoCoverage

\* A registry holds each coverage once.
Distinct(entries) ==
    \A i, j \in DOMAIN entries : entries[i].cov = entries[j].cov => i = j

\* What is in it.
Within(entries) == {entries[i] : i \in DOMAIN entries}

\* What an entry leaves where it clears.
Clean(e) == [base |-> e.value, drawn |-> FALSE]

LEMMA WithinMeaning ==
    ASSUME NEW s \in Seq(Entries)
    PROVE  /\ \A e : e \in Within(s) <=> \E i \in 1 .. Len(s) : e = s[i]
           /\ Within(s) \subseteq Entries
  BY DEF Within

\* A nonempty set of places in a sequence has a last one.
LEMMA LastOfPlaces ==
    ASSUME NEW n \in Nat, NEW S \in SUBSET (1..n), S # {}
    PROVE  Max(S) \in S /\ \A k \in S : k <= Max(S)
<1> DEFINE T == {n - k : k \in S}
<1>1. T \subseteq Nat /\ T # {}
  <2>1. \A k \in S : k \in 1..n
    OBVIOUS
  <2>2. \A k \in S : n - k \in Nat
    BY <2>1
  <2>3. T \subseteq Nat
    BY <2>2
  <2> QED
    BY <2>3, Zenon
<1>2. PICK R : /\ IsWellFoundedOn(R, Nat)
               /\ \A x, y \in Nat : y < x => <<y, x>> \in R
  <2>1. \A x, y \in Nat : y < x => <<y, x>> \in OpToRel(<, Nat)
    BY DEF OpToRel
  <2> QED
    BY <2>1, NatLessThanWellFounded, Zenon
<1>3. PICK x \in T : \A y \in T : x <= y
  <2> HIDE DEF T
  <2>1. PICK x \in T : \A y \in T : ~ (<<y, x>> \in R)
    BY <1>1, <1>2, WFMin, Zenon
  <2>2. ASSUME NEW y \in T PROVE x <= y
    <3>1. x \in Nat /\ y \in Nat
      BY <1>1
    <3>2. ~ (y < x)
      BY <1>2, <2>1, <3>1, Zenon
    <3> QED
      BY <3>1, <3>2
  <2> QED
    BY <2>2
<1>4. PICK m \in S : x = n - m
  OBVIOUS
<1>5. \A k \in S : m >= k
  <2> TAKE k \in S
  <2>1. x <= n - k
    BY <1>3
  <2> QED
    BY <1>4, <2>1
<1> QED
  BY <1>5 DEF Max

\* The place of each kept entry among them is a number of its own, up to their
\* number: filtering keeps exactly the entries in the set, each once.
LEMMA PlacesOfKept ==
    ASSUME NEW n \in Nat, NEW K \in SUBSET (1 .. n)
    PROVE  /\ Cardinality(K) \in Nat
           /\ Cardinality(K) <= n
           /\ \A i \in K : Cardinality({j \in K : j <= i}) \in 1 .. Cardinality(K)
           /\ \A i, j \in K : Cardinality({k \in K : k <= i})
                                = Cardinality({k \in K : k <= j}) => i = j
           /\ \A m \in 1 .. Cardinality(K) :
                 \E i \in K : Cardinality({k \in K : k <= i}) = m
<1> DEFINE Upto(i) == {k \in K : k <= i}
           f == [i \in K |-> Cardinality(Upto(i))]
<1>1. IsFiniteSet(1 .. n) /\ Cardinality(1 .. n) = n
  BY FS_Interval
<1>2. IsFiniteSet(K) /\ Cardinality(K) \in Nat /\ Cardinality(K) <= n
  BY <1>1, FS_Subset, FS_CardinalityType
<1>3. \A i : /\ IsFiniteSet(Upto(i)) /\ Cardinality(Upto(i)) \in Nat
             /\ Cardinality(Upto(i)) <= Cardinality(K)
  <2> TAKE i
  <2>1. Upto(i) \in SUBSET K
    OBVIOUS
  <2> HIDE DEF Upto
  <2> QED
    BY <1>2, <2>1, FS_Subset, FS_CardinalityType
<1>4. ASSUME NEW i \in K PROVE Cardinality(Upto(i)) # 0
  <2>1. i \in Upto(i)
    BY SMT
  <2> HIDE DEF Upto
  <2> QED
    BY <2>1, <1>3, FS_EmptySet
<1>5. ASSUME NEW i \in K, NEW j \in K, i < j
      PROVE  Cardinality(Upto(i)) < Cardinality(Upto(j))
  <2>1. i \in 1 .. n /\ j \in 1 .. n
    OBVIOUS
  <2>2. j \in Upto(j) /\ j \notin Upto(i)
    BY <2>1, <1>5
  <2>3. ASSUME NEW k \in Upto(i) PROVE k \in Upto(j)
    <3>1. k \in 1 .. n /\ k <= i /\ k \in K
      OBVIOUS
    <3>2. k <= j
      BY <2>1, <3>1, <1>5
    <3> QED
      BY <3>1, <3>2
  <2>4. Upto(i) \in SUBSET Upto(j)
    BY <2>3
  <2> HIDE DEF Upto
  <2>5. /\ Cardinality(Upto(i)) <= Cardinality(Upto(j))
        /\ Cardinality(Upto(j)) = Cardinality(Upto(i)) => Upto(j) = Upto(i)
    BY <1>3, <2>4, FS_Subset
  <2>6. Cardinality(Upto(i)) # Cardinality(Upto(j))
    BY <2>2, <2>5
  <2> QED
    BY <1>3, <2>5, <2>6
<1>6. ASSUME NEW i \in K, NEW j \in K, Cardinality(Upto(i)) = Cardinality(Upto(j))
      PROVE  i = j
  <2>1. i \in Nat /\ j \in Nat
    OBVIOUS
  <2> HIDE DEF Upto
  <2>2. /\ Cardinality(Upto(i)) \in Nat /\ Cardinality(Upto(j)) \in Nat
        /\ ~ (Cardinality(Upto(i)) < Cardinality(Upto(j)))
        /\ ~ (Cardinality(Upto(j)) < Cardinality(Upto(i)))
    BY <1>3, <1>6
  <2>3. ~ (i < j) /\ ~ (j < i)
    BY <1>5, <2>2
  <2> QED
    BY <2>1, <2>3
<1>7. \A i \in K : Cardinality(Upto(i)) \in 1 .. Cardinality(K)
  <2> HIDE DEF Upto
  <2> QED
    BY <1>2, <1>3, <1>4
<1>8. f \in Injection(K, 1 .. Cardinality(K))
  <2> HIDE DEF Upto
  <2> QED
    BY <1>6, <1>7 DEF Injection, IsInjective
<1>9. IsFiniteSet(1 .. Cardinality(K)) /\ Cardinality(1 .. Cardinality(K)) = Cardinality(K)
  BY <1>2, FS_Interval
<1>10. f \in Surjection(K, 1 .. Cardinality(K))
  <2> HIDE DEF f, Upto
  <2> QED
    BY <1>8, <1>9, FS_Injection
<1>11. \A m \in 1 .. Cardinality(K) : \E i \in K : Cardinality(Upto(i)) = m
  <2> HIDE DEF Upto
  <2> QED
    BY <1>10 DEF Surjection
<1> QED
  BY <1>2, <1>6, <1>7, <1>11

\* What is kept of a sequence.
LEMMA KeptMeaning ==
    ASSUME NEW s \in Seq(Entries), NEW S
    PROVE  /\ Kept(s, S) \in Seq(Entries)
           /\ Len(Kept(s, S)) <= Len(s)
           /\ Within(Kept(s, S)) = Within(s) \cap S
           /\ Distinct(s) => Distinct(Kept(s, S))
<1> DEFINE K == {i \in DOMAIN s : s[i] \in S}
           Place(i) == Cardinality({j \in K : j <= i})
           At(n) == CHOOSE i \in K : Place(i) = n
<1>1. K \in SUBSET (1 .. Len(s)) /\ Len(s) \in Nat
  OBVIOUS
<1>2. /\ Cardinality(K) \in Nat /\ Cardinality(K) <= Len(s)
      /\ \A i \in K : Place(i) \in 1 .. Cardinality(K)
      /\ \A i, j \in K : Place(i) = Place(j) => i = j
      /\ \A m \in 1 .. Cardinality(K) : \E i \in K : Place(i) = m
  <2> HIDE DEF K
  <2> QED
    BY <1>1, PlacesOfKept
<1>3. Kept(s, S) = [n \in 1 .. Cardinality(K) |-> s[At(n)]]
  BY DEF Kept
<1>4. \A i \in 1 .. Len(s) : i \in K <=> s[i] \in S
  OBVIOUS
<1> HIDE DEF K, Place
<1>5. \A n \in 1 .. Cardinality(K) : At(n) \in K /\ Place(At(n)) = n
  BY <1>2
<1> HIDE DEF At
<1>6. \A n \in 1 .. Cardinality(K) : At(n) \in 1 .. Len(s) /\ s[At(n)] \in Entries
  <2>1. \A i \in K : i \in 1 .. Len(s)
    BY <1>1
  <2>2. \A i \in 1 .. Len(s) : s[i] \in Entries
    OBVIOUS
  <2> QED
    BY <1>5, <2>1, <2>2
<1>7. /\ Kept(s, S) \in Seq(Entries)
      /\ Len(Kept(s, S)) = Cardinality(K)
      /\ \A n \in 1 .. Cardinality(K) : Kept(s, S)[n] = s[At(n)]
  BY <1>2, <1>3, <1>6
<1> HIDE DEF Kept
<1>8. Within(Kept(s, S)) = Within(s) \cap S
  <2>1. ASSUME NEW e \in Within(Kept(s, S)) PROVE e \in Within(s) /\ e \in S
    <3>1. PICK n \in 1 .. Cardinality(K) : e = s[At(n)]
      BY <1>7, WithinMeaning
    <3> QED
      BY <1>4, <1>5, <1>6, <3>1, WithinMeaning
  <2>2. ASSUME NEW e \in Within(s), e \in S PROVE e \in Within(Kept(s, S))
    <3>1. PICK i \in 1 .. Len(s) : e = s[i]
      BY WithinMeaning
    <3>2. i \in K
      BY <1>4, <2>2, <3>1
    <3>3. Place(i) \in 1 .. Cardinality(K) /\ At(Place(i)) = i
      BY <1>2, <1>5, <3>2
    <3> QED
      BY <1>7, <3>1, <3>3, WithinMeaning
  <2> QED
    BY <2>1, <2>2
<1>9. ASSUME Distinct(s) PROVE Distinct(Kept(s, S))
  <2> SUFFICES ASSUME NEW m \in 1 .. Cardinality(K), NEW n \in 1 .. Cardinality(K),
                      s[At(m)].cov = s[At(n)].cov
               PROVE  m = n
    BY <1>7 DEF Distinct
  <2>1. At(m) = At(n)
    BY <1>6, <1>9 DEF Distinct
  <2> QED
    BY <1>5, <2>1
<1> QED
  BY <1>2, <1>7, <1>8, <1>9

\* Executing entries changes planes, and what it leaves is a content.
LEMMA ExecutedType ==
    ASSUME NEW s \in Seq(Entries), NEW mem \in [Planes -> Content]
    PROVE  Executed(mem, s) \in [Planes -> Content]
<1> SUFFICES ASSUME NEW p \in Planes
             PROVE  Executed(mem, s)[p] \in Content
  BY DEF Executed
<1> DEFINE covering == {i \in DOMAIN s : p \in PlanesOf(s[i].cov)}
<1>1. Executed(mem, s)[p] = IF covering = {} THEN mem[p]
                            ELSE [base |-> s[Max(covering)].value, drawn |-> FALSE]
  BY DEF Executed
<1>2. covering \in SUBSET (1 .. Len(s)) /\ Len(s) \in Nat
  OBVIOUS
<1> HIDE DEF covering
<1>3. CASE covering = {}
  BY <1>1, <1>3
<1>4. CASE covering # {}
  <2>1. Max(covering) \in covering
    BY <1>2, <1>4, LastOfPlaces
  <2>2. s[Max(covering)] \in Entries
    <3>1. \A i \in 1 .. Len(s) : s[i] \in Entries
      OBVIOUS
    <3> QED
      BY <1>2, <2>1, <3>1
  <2> QED
    BY <1>1, <1>4, <2>2 DEF Entries, Content
<1> QED
  BY <1>3, <1>4

\* Without overlaps the order does not matter: a plane is left by the entry that
\* covers it, or as it was.
LEMMA ExecutedMeaning ==
    ASSUME DisjointCoverages, NEW s \in Seq(Entries), Distinct(s), NEW mem,
           NEW p \in Planes
    PROVE  /\ \A e \in Within(s) :
                 p \in PlanesOf(e.cov) => Executed(mem, s)[p] = Clean(e)
           /\ (\A e \in Within(s) : p \notin PlanesOf(e.cov))
                 => Executed(mem, s)[p] = mem[p]
<1> DEFINE covering == {i \in DOMAIN s : p \in PlanesOf(s[i].cov)}
<1>1. Executed(mem, s)[p] = IF covering = {} THEN mem[p]
                            ELSE [base |-> s[Max(covering)].value, drawn |-> FALSE]
  BY DEF Executed
<1>2. \A i : i \in covering <=> i \in 1 .. Len(s) /\ p \in PlanesOf(s[i].cov)
  OBVIOUS
<1>3. ASSUME NEW i \in 1 .. Len(s), NEW j \in 1 .. Len(s),
             p \in PlanesOf(s[i].cov), p \in PlanesOf(s[j].cov)
      PROVE  i = j
  <2>1. s[i].cov \in Clears /\ s[j].cov \in Clears
    <3>1. s[i] \in Entries /\ s[j] \in Entries
      OBVIOUS
    <3> QED
      BY <3>1 DEF Entries
  <2>2. s[i].cov = s[j].cov
    BY <1>3, <2>1 DEF DisjointCoverages
  <2> QED
    BY <2>2 DEF Distinct
<1> HIDE DEF covering
<1>4. ASSUME NEW e \in Within(s), p \in PlanesOf(e.cov)
      PROVE  Executed(mem, s)[p] = Clean(e)
  <2>1. PICK i \in 1 .. Len(s) : e = s[i]
    BY WithinMeaning
  <2>2. covering = {i}
    BY <1>2, <1>3, <1>4, <2>1
  <2>3. Max(covering) = i
    BY <2>2 DEF Max
  <2> QED
    BY <1>1, <2>1, <2>2, <2>3 DEF Clean
<1>5. ASSUME \A e \in Within(s) : p \notin PlanesOf(e.cov)
      PROVE  Executed(mem, s)[p] = mem[p]
  <2>1. covering = {}
    BY <1>2, <1>5, WithinMeaning
  <2> QED
    BY <1>1, <2>1
<1> QED
  BY <1>4, <1>5

\* Filtering into two and executing one part before the other is as good as
\* executing all.
LEMMA ExecutedInTwo ==
    ASSUME DisjointCoverages, NEW s \in Seq(Entries), Distinct(s), NEW mem, NEW S
    PROVE  Executed(Executed(mem, Kept(s, S)), Kept(s, Entries \ S)) = Executed(mem, s)
<1> DEFINE first == Kept(s, S)
           rest == Kept(s, Entries \ S)
           mid == Executed(mem, first)
<1>1. /\ first \in Seq(Entries) /\ Distinct(first) /\ Within(first) = Within(s) \cap S
      /\ rest \in Seq(Entries) /\ Distinct(rest)
      /\ Within(rest) = Within(s) \cap (Entries \ S)
  BY KeptMeaning
<1>2. Within(s) \subseteq Entries
  BY WithinMeaning
<1> HIDE DEF first, rest
<1>3. ASSUME NEW p \in Planes
      PROVE  Executed(mid, rest)[p] = Executed(mem, s)[p]
  <2> HIDE DEF mid
  <2>1. CASE \E e \in Within(s) : p \in PlanesOf(e.cov)
    <3>1. PICK e \in Within(s) : p \in PlanesOf(e.cov)
      BY <2>1
    <3>2. Executed(mem, s)[p] = Clean(e)
      BY <3>1, ExecutedMeaning
    <3>3. CASE e \in S
      <4>1. e \in Within(first)
        BY <1>1, <3>3
      <4>2. mid[p] = Clean(e)
        BY <1>1, <3>1, <4>1, ExecutedMeaning DEF mid
      <4>3. ASSUME NEW d \in Within(rest), p \in PlanesOf(d.cov) PROVE FALSE
        <5>1. d \in Within(s) /\ d \in Entries /\ e \in Entries
          BY <1>1, <1>2
        <5>2. d.cov = e.cov
          BY <3>1, <4>3, <5>1 DEF DisjointCoverages, Entries
        <5>3. d = e
          BY <5>1, <5>2, WithinMeaning DEF Distinct
        <5> QED
          BY <1>1, <3>3, <5>3
      <4> QED
        BY <1>1, <3>2, <4>2, <4>3, ExecutedMeaning
    <3>4. CASE e \notin S
      <4>1. e \in Within(rest)
        BY <1>1, <1>2, <3>4
      <4> QED
        BY <1>1, <3>1, <3>2, <4>1, ExecutedMeaning
    <3> QED
      BY <3>3, <3>4
  <2>2. CASE \A e \in Within(s) : p \notin PlanesOf(e.cov)
    <3>1. Executed(mem, s)[p] = mem[p]
      BY <2>2, ExecutedMeaning
    <3>2. mid[p] = mem[p]
      BY <1>1, <2>2, ExecutedMeaning DEF mid
    <3>3. Executed(mid, rest)[p] = mid[p]
      BY <1>1, <2>2, ExecutedMeaning
    <3> QED
      BY <3>1, <3>2, <3>3
  <2> QED
    BY <2>1, <2>2
<1>4. Executed(mid, rest) = Executed(mem, s)
  BY <1>3 DEF Executed
<1> QED
  BY <1>4 DEF first, rest

-----------------------------------------------------------------------------
(* Coverages and passes.                                                   *)

\* The planes of a coverage are slices of its texture's memory.
LEMMA PlanesOfCoverage ==
    ASSUME NEW a \in {"color", "depth", "stencil"}, NEW c \in Coverages(a)
    PROVE  /\ c # NoCoverage /\ c.tex \in Textures
           /\ PlanesOf(c) \subseteq Planes
           /\ \A q \in PlanesOf(c) : q[1] = Storage[c.tex]
<1>1. /\ c.tex \in Textures /\ c.aspect = a
      /\ c.slice \in 0 .. Layers - 1 /\ c.arrayLength \in 0 .. Layers
      /\ c.slice + c.arrayLength <= Layers
  BY DEF Coverages
<1>2. c # NoCoverage
  BY <1>1, FboAssumption DEF NoCoverage
<1>3. Layers \in Nat
  BY FboAssumption
<1>4. ASSUME NEW q \in PlanesOf(c)
      PROVE  q \in Planes /\ q[1] = Storage[c.tex]
  <2>1. PICK i \in (IF c.arrayLength = 0 THEN {c.slice}
                    ELSE c.slice .. c.slice + c.arrayLength - 1) :
            q = <<Storage[c.tex], c.aspect, i>>
    BY <1>2, <1>4 DEF PlanesOf
  <2>2. i \in 0 .. Layers - 1
    BY <1>1, <1>3, <2>1
  <2> QED
    BY <1>1, <2>1, <2>2 DEF Planes
<1> QED
  BY <1>1, <1>2, <1>4

LEMMA ClearsCoverage ==
    ASSUME NEW c \in Clears
    PROVE  /\ c # NoCoverage /\ c.tex \in Textures
           /\ PlanesOf(c) \subseteq Planes
           /\ \A q \in PlanesOf(c) : q[1] = Storage[c.tex]
<1>1. PICK a \in {"color", "depth", "stencil"} : c \in Coverages(a)
  BY FboAssumption
<1> QED
  BY <1>1, PlanesOfCoverage

LEMMA NothingCovered == PlanesOf(NoCoverage) = {} /\ StencilOf(NoCoverage) = NoCoverage
  BY DEF PlanesOf, StencilOf

\* The stencil aspect of a depth attachment covers slices of the same memory.
LEMMA StencilCoverage ==
    ASSUME NEW c \in Coverages("depth")
    PROVE  /\ StencilOf(c) \in Coverages("stencil")
           /\ StencilOf(c).tex = c.tex
<1>1. c # NoCoverage
  BY PlanesOfCoverage
<1>2. StencilOf(c) = [c EXCEPT !.aspect = "stencil"]
  BY <1>1 DEF StencilOf
<1> QED
  BY <1>2 DEF Coverages

\* A pass writes slices of what is attached to it.
LEMMA TargetsOfPass ==
    ASSUME NoStencilImage, NEW p \in Passes \cup {NoPass}
    PROVE  /\ TargetPlanes(p) = PlanesOf(p.color) \cup PlanesOf(p.depth)
                                  \cup PlanesOf(StencilOf(p.depth))
           /\ StencilPlanes(p) = PlanesOf(StencilOf(p.depth))
           /\ TargetPlanes(p) \subseteq Planes
           /\ \A q \in TargetPlanes(p) :
                 \E cov \in {p.color, p.depth} \ {NoCoverage} :
                     cov.tex \in Textures /\ q[1] = Storage[cov.tex]
<1>1. /\ p.stencil = NoCoverage
      /\ p.color \in Coverages("color") \cup {NoCoverage}
      /\ p.depth \in Coverages("depth") \cup {NoCoverage}
  BY FboAssumption DEF NoStencilImage, NoPass
<1>2. /\ TargetPlanes(p) = PlanesOf(p.color) \cup PlanesOf(p.depth)
                             \cup PlanesOf(StencilOf(p.depth))
      /\ StencilPlanes(p) = PlanesOf(StencilOf(p.depth))
  BY <1>1 DEF TargetPlanes, StencilPlanes
<1>3. ASSUME NEW q \in PlanesOf(p.color)
      PROVE  q \in Planes /\ p.color # NoCoverage
               /\ p.color.tex \in Textures /\ q[1] = Storage[p.color.tex]
  <2>1. p.color \in Coverages("color")
    BY <1>1, <1>3, NothingCovered
  <2> QED
    BY <1>3, <2>1, PlanesOfCoverage
<1>4. ASSUME NEW q \in PlanesOf(p.depth) \cup PlanesOf(StencilOf(p.depth))
      PROVE  q \in Planes /\ p.depth # NoCoverage
               /\ p.depth.tex \in Textures /\ q[1] = Storage[p.depth.tex]
  <2>1. p.depth \in Coverages("depth")
    BY <1>1, <1>4, NothingCovered
  <2>2. StencilOf(p.depth) \in Coverages("stencil") /\ StencilOf(p.depth).tex = p.depth.tex
    BY <2>1, StencilCoverage
  <2> QED
    BY <1>4, <2>1, <2>2, PlanesOfCoverage
<1> QED
  BY <1>2, <1>3, <1>4

-----------------------------------------------------------------------------
(* Opening a pass.                                                         *)

\* At most one entry covers a plane.
LEMMA OneCovers ==
    ASSUME DisjointCoverages, NEW s \in Seq(Entries), Distinct(s), NEW q,
           NEW d \in Within(s), NEW e \in Within(s),
           q \in PlanesOf(d.cov), q \in PlanesOf(e.cov)
    PROVE  d = e
<1>1. d \in Entries /\ e \in Entries
  BY WithinMeaning
<1>2. d.cov = e.cov
  BY <1>1 DEF DisjointCoverages, Entries
<1> QED
  BY <1>2, WithinMeaning DEF Distinct

LEMMA LoadActionType ==
    ASSUME NEW s \in Seq(Entries), NEW mem \in [Planes -> Content], NEW P
    PROVE  LoadAction(mem, P, s) \in [Planes -> Content]
<1>1. CASE s = <<>>
  BY <1>1 DEF LoadAction
<1>2. CASE s # <<>>
  <2>1. s[1] \in Entries
    BY <1>2
  <2>2. [base |-> s[1].value, drawn |-> FALSE] \in Content
    BY <2>1 DEF Entries, Content
  <2> QED
    BY <1>2, <2>2 DEF LoadAction
<1> QED
  BY <1>1, <1>2

\* The load action of an attachment is the entry folded into it, if there is one.
LEMMA LoadActionMeaning ==
    ASSUME DisjointCoverages, NEW s \in Seq(Entries), Distinct(s),
           NEW may \in BOOLEAN, NEW c, NEW mem, NEW q \in Planes
    PROVE  LET l == LoadAction(mem, PlanesOf(c), Kept(s, Folding(may, c)))[q]
           IN  /\ \A e \in Within(s) : q \in PlanesOf(e.cov) =>
                     IF e \in Folding(may, c) THEN l = Clean(e) ELSE l = mem[q]
               /\ (\A e \in Within(s) : q \notin PlanesOf(e.cov)) => l = mem[q]
               /\ q \notin PlanesOf(c) => l = mem[q]
<1> DEFINE k == Kept(s, Folding(may, c))
           l == LoadAction(mem, PlanesOf(c), k)[q]
<1>1. k \in Seq(Entries) /\ Within(k) = Within(s) \cap Folding(may, c)
  BY KeptMeaning
<1>2. \A e \in Folding(may, c) : e.cov = c
  BY DEF Folding
<1> HIDE DEF k
<1>3. k # <<>> => k[1] \in Within(k)
  BY <1>1 DEF Within
<1>4. k # <<>> /\ q \in PlanesOf(c) => l = Clean(k[1])
  BY DEF LoadAction, Clean
<1>5. k = <<>> \/ q \notin PlanesOf(c) => l = mem[q]
  BY DEF LoadAction
<1>6. k = <<>> => Within(k) = {}
  BY DEF Within
<1> HIDE DEF l
<1>7. ASSUME NEW e \in Within(s), q \in PlanesOf(e.cov), e \in Folding(may, c)
      PROVE  l = Clean(e)
  <2>1. k # <<>> /\ q \in PlanesOf(c)
    BY <1>1, <1>2, <1>6, <1>7
  <2>2. k[1] \in Within(s) /\ k[1].cov = c
    BY <1>1, <1>2, <1>3, <2>1
  <2>3. k[1] = e
    BY <1>7, <2>1, <2>2, OneCovers
  <2> QED
    BY <1>4, <2>1, <2>3
<1>8. ASSUME NEW e \in Within(s), q \in PlanesOf(e.cov), e \notin Folding(may, c)
      PROVE  l = mem[q]
  <2>1. ASSUME k # <<>>, q \in PlanesOf(c) PROVE FALSE
    <3>1. k[1] \in Within(s) /\ k[1] \in Folding(may, c) /\ k[1].cov = c
      BY <1>1, <1>2, <1>3, <2>1
    <3>2. k[1] = e
      BY <1>8, <2>1, <3>1, OneCovers
    <3> QED
      BY <1>8, <3>1, <3>2
  <2> QED
    BY <1>5, <2>1
<1>9. ASSUME \A e \in Within(s) : q \notin PlanesOf(e.cov)
      PROVE  l = mem[q]
  <2>1. ASSUME k # <<>>, q \in PlanesOf(c) PROVE FALSE
    BY <1>1, <1>2, <1>3, <1>9, <2>1
  <2> QED
    BY <1>5, <2>1
<1> QED
  BY <1>5, <1>7, <1>8, <1>9 DEF k, l

\* What is on the targets of a pass.
OnTargets(p) == UNION {Showing(cov.tex) : cov \in {p.color, p.depth} \ {NoCoverage}}

\* An entry that covers a plane of the pass is on its targets.
LEMMA CoversTarget ==
    ASSUME NoStencilImage, NEW p \in Passes, NEW e \in Entries,
           NEW q \in TargetPlanes(p), q \in PlanesOf(e.cov)
    PROVE  e \in OnTargets(p)
<1>1. PICK cov \in {p.color, p.depth} \ {NoCoverage} : q[1] = Storage[cov.tex]
  BY TargetsOfPass
<1>2. q[1] = Storage[e.cov.tex]
  BY ClearsCoverage DEF Entries
<1>3. e \in Showing(cov.tex)
  BY <1>1, <1>2 DEF Showing, Aliases
<1> QED
  BY <1>3 DEF OnTargets

LEMMA OpenedType ==
    ASSUME NEW p \in Passes, NEW mem \in [Planes -> Content],
           NEW rest \in Seq(Entries), Distinct(rest),
           NEW foldColor \in BOOLEAN, NEW foldDepth \in BOOLEAN,
           OpenFboPass(mem, rest, p, foldColor, foldDepth)
    PROVE  /\ memory' \in [Planes -> Content]
           /\ pending' \in Seq(Entries)
           /\ Distinct(pending')
           /\ Len(pending') <= Len(rest)
<1> DEFINE color == Folding(foldColor, p.color)
           depth == Folding(foldDepth, p.depth)
           stencil == Folding(foldDepth, StencilOf(p.depth))
           folded == color \cup depth \cup stencil
           executed == Executed(mem, Kept(rest, OnTargets(p) \ folded))
           one == LoadAction(executed, PlanesOf(p.color), Kept(rest, color))
           two == LoadAction(one, PlanesOf(p.depth), Kept(rest, depth))
           three == LoadAction(two, StencilPlanes(p), Kept(rest, stencil))
<1>1. /\ memory' = Drawn(three, TargetPlanes(p))
      /\ pending' = Kept(rest, Entries \ (OnTargets(p) \cup folded))
  BY DEF OpenFboPass, OnTargets
<1>2. /\ pending' \in Seq(Entries) /\ Distinct(pending')
      /\ Len(pending') <= Len(rest)
  BY <1>1, KeptMeaning
<1> HIDE DEF color, depth, stencil, folded
<1>3. executed \in [Planes -> Content]
  BY KeptMeaning, ExecutedType
<1> HIDE DEF executed
<1>4. one \in [Planes -> Content]
  BY <1>3, KeptMeaning, LoadActionType
<1> HIDE DEF one
<1>5. two \in [Planes -> Content]
  BY <1>4, KeptMeaning, LoadActionType
<1> HIDE DEF two
<1>6. three \in [Planes -> Content]
  BY <1>5, KeptMeaning, LoadActionType
<1> HIDE DEF three
<1>7. memory' \in [Planes -> Content]
  BY <1>1, <1>6 DEF Drawn, Content
<1> QED
  BY <1>2, <1>7

\* A pass is opened on the memory GL defines for its targets, nothing of theirs is
\* still deferred, and elsewhere what was deferred is.
LEMMA OpenedMeaning ==
    ASSUME DisjointCoverages, NoStencilImage, NEW p \in Passes, NEW mem,
           NEW rest \in Seq(Entries), Distinct(rest),
           NEW foldColor \in BOOLEAN, NEW foldDepth \in BOOLEAN,
           OpenFboPass(mem, rest, p, foldColor, foldDepth)
    PROVE  /\ Within(pending') \subseteq Within(rest)
           /\ \A q \in TargetPlanes(p) : \A e \in Within(pending') : q \notin PlanesOf(e.cov)
           /\ \A q \in TargetPlanes(p) :
                 memory'[q] = [Executed(mem, rest)[q] EXCEPT !.drawn = TRUE]
           /\ \A q \in Planes \ TargetPlanes(p) :
                 Executed(memory', pending')[q] = Executed(mem, rest)[q]
<1> DEFINE color == Folding(foldColor, p.color)
           depth == Folding(foldDepth, p.depth)
           stencil == Folding(foldDepth, StencilOf(p.depth))
           folded == color \cup depth \cup stencil
           some == Kept(rest, OnTargets(p) \ folded)
           executed == Executed(mem, some)
           one == LoadAction(executed, PlanesOf(p.color), Kept(rest, color))
           two == LoadAction(one, PlanesOf(p.depth), Kept(rest, depth))
           three == LoadAction(two, PlanesOf(StencilOf(p.depth)), Kept(rest, stencil))
<1>1. /\ memory' = Drawn(three, TargetPlanes(p))
      /\ pending' = Kept(rest, Entries \ (OnTargets(p) \cup folded))
  BY TargetsOfPass DEF OpenFboPass, OnTargets
<1>2. /\ pending' \in Seq(Entries) /\ Distinct(pending')
      /\ Within(pending') = Within(rest) \cap (Entries \ (OnTargets(p) \cup folded))
  BY <1>1, KeptMeaning
<1>3. /\ some \in Seq(Entries) /\ Distinct(some)
      /\ Within(some) = Within(rest) \cap (OnTargets(p) \ folded)
  BY KeptMeaning
<1>4. Within(rest) \subseteq Entries
  BY WithinMeaning
<1>5. /\ TargetPlanes(p) = PlanesOf(p.color) \cup PlanesOf(p.depth)
                             \cup PlanesOf(StencilOf(p.depth))
      /\ TargetPlanes(p) \subseteq Planes
  BY TargetsOfPass
<1>6. \A e \in folded : e.cov \in {p.color, p.depth, StencilOf(p.depth)}
  BY DEF Folding
<1>7. ASSUME NEW q \in Planes
      PROVE  /\ \A e \in Within(rest) : q \in PlanesOf(e.cov) =>
                   three[q] = IF e \in folded THEN Clean(e) ELSE executed[q]
             /\ (\A e \in Within(rest) : q \notin PlanesOf(e.cov)) => three[q] = executed[q]
             /\ q \notin TargetPlanes(p) => three[q] = executed[q]
  <2> HIDE DEF executed
  <2>1. /\ \A e \in Within(rest) : q \in PlanesOf(e.cov) =>
              IF e \in color THEN one[q] = Clean(e) ELSE one[q] = executed[q]
        /\ (\A e \in Within(rest) : q \notin PlanesOf(e.cov)) => one[q] = executed[q]
        /\ q \notin PlanesOf(p.color) => one[q] = executed[q]
    BY LoadActionMeaning
  <2> HIDE DEF one
  <2>2. /\ \A e \in Within(rest) : q \in PlanesOf(e.cov) =>
              IF e \in depth THEN two[q] = Clean(e) ELSE two[q] = one[q]
        /\ (\A e \in Within(rest) : q \notin PlanesOf(e.cov)) => two[q] = one[q]
        /\ q \notin PlanesOf(p.depth) => two[q] = one[q]
    BY LoadActionMeaning
  <2> HIDE DEF two
  <2>3. /\ \A e \in Within(rest) : q \in PlanesOf(e.cov) =>
              IF e \in stencil THEN three[q] = Clean(e) ELSE three[q] = two[q]
        /\ (\A e \in Within(rest) : q \notin PlanesOf(e.cov)) => three[q] = two[q]
        /\ q \notin PlanesOf(StencilOf(p.depth)) => three[q] = two[q]
    BY LoadActionMeaning
  <2> HIDE DEF three, color, depth, stencil
  <2> QED
    BY <1>5, <2>1, <2>2, <2>3
<1> HIDE DEF color, depth, stencil, three, folded
<1>8. ASSUME NEW q \in Planes
      PROVE  /\ \A e \in Within(some) : q \in PlanesOf(e.cov) => executed[q] = Clean(e)
             /\ (\A e \in Within(some) : q \notin PlanesOf(e.cov)) => executed[q] = mem[q]
  BY <1>3, ExecutedMeaning
<1> HIDE DEF some, executed
<1>9. ASSUME NEW q \in TargetPlanes(p), NEW e \in Within(pending'), q \in PlanesOf(e.cov)
      PROVE  FALSE
  BY <1>2, <1>9, CoversTarget
<1>10. ASSUME NEW q \in TargetPlanes(p)
       PROVE  memory'[q] = [Executed(mem, rest)[q] EXCEPT !.drawn = TRUE]
  <2>1. memory'[q] = [three[q] EXCEPT !.drawn = TRUE]
    BY <1>1, <1>5 DEF Drawn
  <2>2. CASE \E e \in Within(rest) : q \in PlanesOf(e.cov)
    <3>1. PICK e \in Within(rest) : q \in PlanesOf(e.cov)
      BY <2>2
    <3>2. e \in OnTargets(p)
      BY <1>4, <3>1, CoversTarget
    <3>3. Executed(mem, rest)[q] = Clean(e)
      BY <1>5, <3>1, ExecutedMeaning
    <3>4. three[q] = Clean(e)
      BY <1>3, <1>5, <1>7, <1>8, <3>1, <3>2
    <3> QED
      BY <2>1, <3>3, <3>4
  <2>3. CASE \A e \in Within(rest) : q \notin PlanesOf(e.cov)
    <3>1. Executed(mem, rest)[q] = mem[q]
      BY <1>5, <2>3, ExecutedMeaning
    <3>2. three[q] = mem[q]
      BY <1>3, <1>5, <1>7, <1>8, <2>3
    <3> QED
      BY <2>1, <3>1, <3>2
  <2> QED
    BY <2>2, <2>3
<1>11. ASSUME NEW q \in Planes \ TargetPlanes(p)
       PROVE  Executed(memory', pending')[q] = Executed(mem, rest)[q]
  <2>1. memory'[q] = executed[q]
    BY <1>1, <1>7 DEF Drawn
  <2>2. CASE \E e \in Within(rest) : q \in PlanesOf(e.cov)
    <3>1. PICK e \in Within(rest) : q \in PlanesOf(e.cov)
      BY <2>2
    <3>2. Executed(mem, rest)[q] = Clean(e)
      BY <3>1, ExecutedMeaning
    <3>3. e \notin folded
      BY <1>5, <1>6, <3>1
    <3>4. CASE e \in OnTargets(p)
      <4>1. executed[q] = Clean(e)
        BY <1>3, <1>8, <3>1, <3>3, <3>4
      <4>2. ASSUME NEW d \in Within(pending'), q \in PlanesOf(d.cov) PROVE FALSE
        <5>1. d \in Within(rest)
          BY <1>2
        <5>2. d = e
          BY <3>1, <4>2, <5>1, OneCovers
        <5> QED
          BY <1>2, <3>4, <5>2
      <4> QED
        BY <1>2, <2>1, <3>2, <4>1, <4>2, ExecutedMeaning
    <3>5. CASE e \notin OnTargets(p)
      <4>1. e \in Within(pending')
        BY <1>2, <1>4, <3>3, <3>5
      <4> QED
        BY <1>2, <3>1, <3>2, <4>1, ExecutedMeaning
    <3> QED
      BY <3>4, <3>5
  <2>3. CASE \A e \in Within(rest) : q \notin PlanesOf(e.cov)
    <3>1. Executed(mem, rest)[q] = mem[q]
      BY <2>3, ExecutedMeaning
    <3>2. executed[q] = mem[q]
      BY <1>3, <1>8, <2>3
    <3>3. Executed(memory', pending')[q] = memory'[q]
      BY <1>2, <2>3, ExecutedMeaning
    <3> QED
      BY <2>1, <3>1, <3>2, <3>3
  <2> QED
    BY <2>2, <2>3
<1> QED
  BY <1>2, <1>9, <1>10, <1>11

-----------------------------------------------------------------------------
(* The registry.                                                           *)

\* Registering a clear: the entry is in the registry afterwards, no other one of
\* its coverage is, and every other entry still is, or has been executed.
LEMMA RegisterMeaning ==
    ASSUME pending \in Seq(Entries), Len(pending) <= MaxPending, Distinct(pending),
           NEW cov \in Clears, NEW v \in ClearValues, Register(cov, v)
    PROVE  /\ pending' \in Seq(Entries) /\ Len(pending') <= MaxPending
           /\ Distinct(pending')
           /\ Entry(cov, v) \in Within(pending')
           /\ \A e \in Within(pending') :
                 e = Entry(cov, v) \/ (e \in Within(pending) /\ e.cov # cov)
           /\ \/ /\ memory' = memory
                 /\ \A e \in Within(pending) : e.cov # cov => e \in Within(pending')
              \/ \E h \in Within(pending) :
                    /\ Overflows(cov)
                    /\ memory' = Executed(memory, <<h>>)
                    /\ h.cov # cov
                    /\ \A e \in Within(pending) : e # h => e \in Within(pending')
<1>1. Entry(cov, v) \in Entries /\ Entry(cov, v).cov = cov
  BY DEF Entry, Entries
<1>2. \A k \in 1 .. Len(pending) : pending[k] \in Entries
  OBVIOUS
<1>3. Len(pending) \in Nat /\ MaxPending \in Nat /\ MaxPending >= 1
  BY FboAssumption
<1>4. ASSUME NEW i \in DOMAIN pending, pending[i].cov = cov,
             pending' = [pending EXCEPT ![i].value = v], UNCHANGED memory
      PROVE  /\ pending' \in Seq(Entries) /\ Len(pending') <= MaxPending
             /\ Distinct(pending')
             /\ Entry(cov, v) \in Within(pending')
             /\ \A e \in Within(pending') :
                   e = Entry(cov, v) \/ (e \in Within(pending) /\ e.cov # cov)
             /\ memory' = memory
             /\ \A e \in Within(pending) : e.cov # cov => e \in Within(pending')
  <2>1. i \in 1 .. Len(pending)
    OBVIOUS
  <2>2. [pending[i] EXCEPT !.value = v] = Entry(cov, v)
    BY <1>2, <1>4, <2>1 DEF Entry, Entries
  <2>3. pending' = [pending EXCEPT ![i] = Entry(cov, v)]
    BY <1>4, <2>2
  <2>4. /\ pending' \in Seq(Entries) /\ Len(pending') = Len(pending)
        /\ pending'[i] = Entry(cov, v)
        /\ \A k \in 1 .. Len(pending) : k # i => pending'[k] = pending[k]
    BY <1>1, <2>1, <2>3
  <2>9. \A j, k \in 1 .. Len(pending) : pending[j].cov = pending[k].cov => j = k
    BY DEF Distinct
  <2>5. Distinct(pending')
    <3> SUFFICES ASSUME NEW j \in 1 .. Len(pending), NEW k \in 1 .. Len(pending),
                        pending'[j].cov = pending'[k].cov
                 PROVE  j = k
      BY <2>4 DEF Distinct
    <3>1. pending'[j].cov = pending[j].cov /\ pending'[k].cov = pending[k].cov
      BY <1>1, <1>4, <2>4
    <3> QED
      BY <3>1, <2>9
  <2>6. \A k \in 1 .. Len(pending) : k # i => pending[k].cov # cov
    BY <1>4, <2>1 DEF Distinct
  <2>7. \A e \in Within(pending') :
           e = Entry(cov, v) \/ (e \in Within(pending) /\ e.cov # cov)
    BY <2>4, <2>6, WithinMeaning
  <2>8. ASSUME NEW e \in Within(pending), e.cov # cov PROVE e \in Within(pending')
    <3>1. PICK k \in 1 .. Len(pending) : e = pending[k]
      BY WithinMeaning
    <3>2. pending'[k] = e
      BY <1>4, <2>4, <2>8, <3>1
    <3> QED
      BY <2>4, <3>2, WithinMeaning
  <2> QED
    BY <1>4, <2>1, <2>4, <2>5, <2>7, <2>8, WithinMeaning
<1>5. ASSUME NEW s \in Seq(Entries), Distinct(s), \A k \in 1 .. Len(s) : s[k].cov # cov,
             pending' = Append(s, Entry(cov, v))
      PROVE  /\ pending' \in Seq(Entries) /\ Len(pending') = Len(s) + 1
             /\ Distinct(pending')
             /\ Entry(cov, v) \in Within(pending')
             /\ \A e \in Within(s) : e \in Within(pending')
             /\ \A e \in Within(pending') : e = Entry(cov, v) \/ e \in Within(s)
  <2>1. /\ pending' \in Seq(Entries) /\ Len(pending') = Len(s) + 1
        /\ pending'[Len(s) + 1] = Entry(cov, v)
        /\ \A k \in 1 .. Len(s) : pending'[k] = s[k]
    BY <1>1, <1>5
  <2>2. Len(s) \in Nat /\ \A k \in 1 .. Len(s) + 1 : k \in 1 .. Len(s) \/ k = Len(s) + 1
    OBVIOUS
  <2>3. Distinct(pending')
    <3> SUFFICES ASSUME NEW j \in 1 .. Len(s) + 1, NEW k \in 1 .. Len(s) + 1,
                        pending'[j].cov = pending'[k].cov
                 PROVE  j = k
      BY <2>1 DEF Distinct
    <3>1. CASE j \in 1 .. Len(s) /\ k \in 1 .. Len(s)
      BY <1>5, <2>1, <3>1 DEF Distinct
    <3>2. CASE j = Len(s) + 1 \/ k = Len(s) + 1
      BY <1>1, <1>5, <2>1, <2>2, <3>2
    <3> QED
      BY <2>2, <3>1, <3>2
  <2>4. Len(s) + 1 \in 1 .. Len(s) + 1 /\ \A k \in 1 .. Len(s) : k \in 1 .. Len(s) + 1
    BY <2>2
  <2> QED
    BY <2>1, <2>2, <2>3, <2>4, WithinMeaning
<1>6. CASE /\ \A i \in DOMAIN pending : pending[i].cov # cov
           /\ Len(pending) < MaxPending
           /\ pending' = Append(pending, Entry(cov, v))
           /\ UNCHANGED memory
  <2>1. \A k \in 1 .. Len(pending) : pending[k].cov # cov
    BY <1>6
  <2>2. \A e \in Within(pending) : e.cov # cov
    BY <2>1, WithinMeaning
  <2>3. /\ pending' \in Seq(Entries) /\ Len(pending') = Len(pending) + 1
        /\ Distinct(pending')
        /\ Entry(cov, v) \in Within(pending')
        /\ \A e \in Within(pending) : e \in Within(pending')
        /\ \A e \in Within(pending') : e = Entry(cov, v) \/ e \in Within(pending)
    BY <1>5, <1>6, <2>1
  <2>4. Len(pending') <= MaxPending
    BY <1>3, <1>6, <2>3
  <2> QED
    BY <1>6, <2>2, <2>3, <2>4
<1>7. CASE /\ \A i \in DOMAIN pending : pending[i].cov # cov
           /\ Len(pending) >= MaxPending
           /\ memory' = Executed(memory, <<Head(pending)>>)
           /\ pending' = Append(Tail(pending), Entry(cov, v))
  <2> DEFINE s == Tail(pending)
  <2>1. \A k \in 1 .. Len(pending) : pending[k].cov # cov
    BY <1>7
  <2>2. \A e \in Within(pending) : e.cov # cov
    BY <2>1, WithinMeaning
  <2>3. /\ pending # <<>> /\ 1 \in 1 .. Len(pending) /\ Head(pending) = pending[1]
        /\ s \in Seq(Entries) /\ Len(s) = Len(pending) - 1
        /\ \A k \in 1 .. Len(s) : s[k] = pending[k + 1] /\ k + 1 \in 1 .. Len(pending)
    BY <1>3, <1>7
  <2>4. \A k \in 1 .. Len(pending) : k # 1 => k - 1 \in 1 .. Len(s) /\ s[k - 1] = pending[k]
    BY <1>3, <2>3
  <2> HIDE DEF s
  <2>5. Distinct(s)
    <3> SUFFICES ASSUME NEW j \in 1 .. Len(s), NEW k \in 1 .. Len(s), s[j].cov = s[k].cov
                 PROVE  j = k
      BY <2>3 DEF Distinct
    <3>1. \A i1, i2 \in 1 .. Len(pending) : pending[i1].cov = pending[i2].cov => i1 = i2
      BY <1>3 DEF Distinct
    <3>2. /\ s[j] = pending[j + 1] /\ j + 1 \in 1 .. Len(pending)
          /\ s[k] = pending[k + 1] /\ k + 1 \in 1 .. Len(pending)
      BY <2>3
    <3>3. pending[j + 1].cov = pending[k + 1].cov
      BY <3>2
    <3>4. j + 1 = k + 1
      BY <3>1, <3>2, <3>3
    <3> QED
      BY <3>4
  <2>6. \A k \in 1 .. Len(s) : s[k].cov # cov
    BY <2>1, <2>3
  <2>7. /\ \A e \in Within(s) : e \in Within(pending)
        /\ \A e \in Within(pending) : e # Head(pending) => e \in Within(s)
        /\ Head(pending) \in Within(pending)
    <3>1. ASSUME NEW e \in Within(s) PROVE e \in Within(pending)
      BY <2>3, WithinMeaning
    <3>2. ASSUME NEW e \in Within(pending), e # Head(pending) PROVE e \in Within(s)
      <4>1. PICK k \in 1 .. Len(pending) : e = pending[k]
        BY WithinMeaning
      <4>2. k - 1 \in 1 .. Len(s) /\ s[k - 1] = e
        BY <2>3, <2>4, <3>2, <4>1
      <4> QED
        BY <2>3, <4>2, WithinMeaning
    <3> QED
      BY <2>3, <3>1, <3>2, WithinMeaning
  <2>8. pending' = Append(s, Entry(cov, v))
    BY <1>7 DEF s
  <2>9. /\ pending' \in Seq(Entries) /\ Len(pending') = Len(s) + 1
        /\ Distinct(pending')
        /\ Entry(cov, v) \in Within(pending')
        /\ \A e \in Within(s) : e \in Within(pending')
        /\ \A e \in Within(pending') : e = Entry(cov, v) \/ e \in Within(s)
    BY <1>5, <2>3, <2>5, <2>6, <2>8
  <2>10. Len(pending') <= MaxPending
    BY <1>3, <2>3, <2>9
  <2>11. Overflows(cov)
    BY <1>7 DEF Overflows
  <2> QED
    BY <1>7, <2>2, <2>7, <2>9, <2>10, <2>11
<1> QED
  BY <1>4, <1>6, <1>7 DEF Register

-----------------------------------------------------------------------------
(* Types.                                                                  *)

LEMMA ClearedType ==
    ASSUME NEW mem \in [Planes -> Content], NEW cov, NEW v \in ClearValues
    PROVE  Cleared(mem, cov, v) \in [Planes -> Content]
  BY DEF Cleared, Content

LEMMA DrawnType ==
    ASSUME NEW mem \in [Planes -> Content], NEW P
    PROVE  Drawn(mem, P) \in [Planes -> Content]
  BY DEF Drawn, Content

\* The entries of what is sampled, and the others.
LEMMA SampledFirst ==
    ASSUME FboTypeOK, NEW t \in Textures \cup {NoTexture}
    PROVE  /\ Sampled(t) \in Seq(Entries) /\ NotSampled(t) \in Seq(Entries)
           /\ Len(NotSampled(t)) <= Len(pending)
           /\ Distinct(NotSampled(t))
           /\ Within(NotSampled(t)) \subseteq Within(pending)
           /\ \A e \in Within(NotSampled(t)) : t # NoTexture => e \notin Showing(t)
           /\ DisjointCoverages =>
                Executed(Executed(memory, Sampled(t)), NotSampled(t)) = Executed(memory, pending)
<1>1. pending \in Seq(Entries) /\ Distinct(pending)
  BY DEF FboTypeOK, Distinct
<1>2. CASE t = NoTexture
  <2>1. Sampled(t) = <<>> /\ NotSampled(t) = pending
    BY <1>2 DEF Sampled, NotSampled
  <2>2. Executed(memory, <<>>) = memory
    <3>1. \A p \in Planes : Executed(memory, <<>>)[p] = memory[p]
      BY DEF Executed
    <3>2. memory \in [Planes -> Content]
      BY DEF FboTypeOK
    <3> QED
      BY <3>1, <3>2 DEF Executed
  <2> QED
    BY <1>1, <1>2, <2>1, <2>2
<1>3. CASE t # NoTexture
  <2>1. /\ Sampled(t) = Kept(pending, Showing(t))
        /\ NotSampled(t) = Kept(pending, Entries \ Showing(t))
    BY <1>3 DEF Sampled, NotSampled, Touching, Elsewhere
  <2>2. /\ Sampled(t) \in Seq(Entries) /\ NotSampled(t) \in Seq(Entries)
        /\ Len(NotSampled(t)) <= Len(pending)
        /\ Distinct(NotSampled(t))
        /\ Within(NotSampled(t)) = Within(pending) \cap (Entries \ Showing(t))
    BY <1>1, <2>1, KeptMeaning
  <2>3. DisjointCoverages =>
          Executed(Executed(memory, Sampled(t)), NotSampled(t)) = Executed(memory, pending)
    BY <1>1, <2>1, ExecutedInTwo
  <2> QED
    BY <2>2, <2>3
<1> QED
  BY <1>2, <1>3

LEMMA FboTypeNext ==
    ASSUME FboTypeOK, [FboNext]_fboVars
    PROVE  FboTypeOK'
<1>1. /\ memory \in [Planes -> Content] /\ contents \in [Planes -> Content]
      /\ pending \in Seq(Entries) /\ Len(pending) <= MaxPending /\ Distinct(pending)
      /\ pass \in Passes \cup {NoPass} /\ seen \subseteq Planes
  BY DEF FboTypeOK, Distinct
<1>2. Len(pending) \in Nat /\ MaxPending \in Nat
  BY <1>1, FboAssumption
<1>3. ASSUME /\ memory' \in [Planes -> Content] /\ contents' \in [Planes -> Content]
             /\ pending' \in Seq(Entries) /\ Len(pending') <= MaxPending /\ Distinct(pending')
             /\ pass' \in Passes \cup {NoPass} /\ seen' \subseteq Planes
      PROVE  FboTypeOK'
  BY <1>3 DEF FboTypeOK, Distinct
<1>4. ASSUME NEW cov \in Clears, NEW v \in ClearValues, DeferClear(cov, v)
      PROVE  FboTypeOK'
  <2>1. Register(cov, v)
    BY <1>4 DEF DeferClear
  <2>2. /\ pending' \in Seq(Entries) /\ Len(pending') <= MaxPending /\ Distinct(pending')
        /\ memory' = memory \/ \E h \in Within(pending) : memory' = Executed(memory, <<h>>)
    BY <1>1, <2>1, RegisterMeaning
  <2>3. memory' \in [Planes -> Content]
    <3>1. ASSUME NEW h \in Within(pending), memory' = Executed(memory, <<h>>)
          PROVE  memory' \in [Planes -> Content]
      <4>1. <<h>> \in Seq(Entries)
        BY <1>1, WithinMeaning
      <4> QED
        BY <1>1, <3>1, <4>1, ExecutedType
    <3> QED
      BY <1>1, <2>2, <3>1
  <2>4. contents' \in [Planes -> Content]
    BY <1>1, <1>4, ClearedType DEF DeferClear
  <2>5. pass' \in Passes \cup {NoPass} /\ seen' \subseteq Planes
    BY <1>1, <1>4 DEF DeferClear
  <2> QED
    BY <1>3, <2>2, <2>3, <2>4, <2>5
<1>5. ASSUME NEW p \in Passes, NEW t \in Textures \cup {NoTexture}, Draw(p, t)
      PROVE  FboTypeOK'
  <2>1. contents' \in [Planes -> Content]
    BY <1>1, <1>5, DrawnType DEF Draw
  <2>2. pass' \in Passes \cup {NoPass} /\ seen' \subseteq Planes
    BY <1>1, <1>5 DEF Draw
  <2>3. CASE memory' = Drawn(memory, TargetPlanes(p)) /\ UNCHANGED pending
    <3>1. memory' \in [Planes -> Content]
      BY <1>1, <2>3, DrawnType
    <3> QED
      BY <1>1, <1>3, <2>1, <2>2, <2>3, <3>1
  <2>4. ASSUME NEW fc \in BOOLEAN, NEW fd \in BOOLEAN,
               OpenFboPass(Executed(memory, Sampled(t)), NotSampled(t), p, fc, fd)
        PROVE  FboTypeOK'
    <3>1. /\ Executed(memory, Sampled(t)) \in [Planes -> Content]
          /\ NotSampled(t) \in Seq(Entries) /\ Distinct(NotSampled(t))
          /\ Len(NotSampled(t)) <= Len(pending)
      BY <1>1, SampledFirst, ExecutedType
    <3>2. /\ memory' \in [Planes -> Content] /\ pending' \in Seq(Entries)
          /\ Distinct(pending') /\ Len(pending') <= Len(NotSampled(t))
      BY <2>4, <3>1, OpenedType
    <3>3. Len(pending') <= MaxPending
      <4>1. Len(pending') \in Nat /\ Len(NotSampled(t)) \in Nat
        BY <3>1, <3>2
      <4> QED
        BY <1>1, <1>2, <3>1, <3>2, <4>1
    <3> QED
      BY <1>3, <2>1, <2>2, <3>2, <3>3
  <2> QED
    BY <1>5, <2>3, <2>4 DEF Draw
<1>6. ASSUME MaterializeAll PROVE FboTypeOK'
  <2>1. memory' \in [Planes -> Content]
    BY <1>1, <1>6, ExecutedType DEF MaterializeAll
  <2>2. pending' = <<>> /\ contents' = contents /\ seen' = Planes /\ pass' \in {pass, NoPass}
    BY <1>6 DEF MaterializeAll, PassAfter
  <2>3. pending' \in Seq(Entries) /\ Len(pending') = 0 /\ Distinct(pending')
    BY <2>2 DEF Distinct
  <2>4. Len(pending') <= MaxPending
    BY <1>2, <2>3
  <2> QED
    BY <1>1, <1>3, <2>1, <2>2, <2>3, <2>4
<1>7. ASSUME NEW t \in Textures, Upload(t) PROVE FboTypeOK'
  <2>1. /\ Touching(t) \in Seq(Entries) /\ Elsewhere(t) \in Seq(Entries)
        /\ Len(Elsewhere(t)) <= Len(pending) /\ Distinct(Elsewhere(t))
    BY <1>1, KeptMeaning DEF Touching, Elsewhere
  <2>2. /\ memory' \in [Planes -> Content] /\ contents' \in [Planes -> Content]
    BY <1>1, <1>7, <2>1, ExecutedType, DrawnType DEF Upload
  <2>3. pending' = Elsewhere(t) /\ seen' = {} /\ pass' \in {pass, NoPass}
    BY <1>7 DEF Upload, PassAfter
  <2>4. Len(pending') <= MaxPending
    <3>1. Len(Elsewhere(t)) \in Nat
      BY <2>1
    <3> QED
      BY <1>1, <1>2, <2>1, <2>3, <3>1
  <2> QED
    BY <1>1, <1>3, <2>1, <2>2, <2>3, <2>4
<1>8. CASE UNCHANGED fboVars
  BY <1>8 DEF FboTypeOK, fboVars
<1> QED
  BY <1>4, <1>5, <1>6, <1>7, <1>8 DEF FboNext

LEMMA FboTypeInit == FboInit => FboTypeOK
<1> SUFFICES ASSUME FboInit PROVE FboTypeOK
  OBVIOUS
<1>1. (CHOOSE v \in ClearValues : TRUE) \in ClearValues
  BY FboAssumption
<1>2. memory \in [Planes -> Content] /\ contents = memory
  BY <1>1 DEF FboInit, Content
<1>3. pending = <<>> /\ pass = NoPass /\ seen = {}
  BY DEF FboInit
<1>4. pending \in Seq(Entries) /\ Len(pending) <= MaxPending
  BY <1>3, FboAssumption
<1> QED
  BY <1>2, <1>3, <1>4 DEF FboTypeOK

\* The registry keeps its limit and holds each coverage once, whatever coverages
\* an application clears and draws to.
THEOREM SpecFboTypeOK == FboSpec => []FboTypeOK
  BY FboTypeInit, FboTypeNext, PTL DEF FboSpec

-----------------------------------------------------------------------------
(* The deferral is invisible.                                              *)

\* Nothing is owed to what the last command read, or to what is attached to the
\* open pass.
NoneOwed ==
    \A q \in seen \cup TargetPlanes(pass) :
        \A e \in Within(pending) : q \notin PlanesOf(e.cov)

\* The inductive invariant.
FboInv == FboTypeOK /\ ContentsKept /\ NoneOwed

LEMMA SamePlanes ==
    ASSUME NEW f \in [Planes -> Content], NEW mem, NEW s,
           \A q \in Planes : Executed(mem, s)[q] = f[q]
    PROVE  Executed(mem, s) = f
  BY DEF Executed

\* Where nothing is owed, memory is current.
LEMMA CurrentWhereNoneOwed ==
    ASSUME DisjointCoverages, FboTypeOK, ContentsKept, NEW q \in Planes,
           \A e \in Within(pending) : q \notin PlanesOf(e.cov)
    PROVE  memory[q] = contents[q]
<1>1. pending \in Seq(Entries) /\ Distinct(pending)
  BY DEF FboTypeOK, Distinct
<1>2. Executed(memory, pending)[q] = memory[q]
  BY <1>1, ExecutedMeaning
<1> QED
  BY <1>2 DEF ContentsKept

\* An entry covers slices of the texture it shows.
LEMMA CoversShowing ==
    ASSUME NEW e \in Entries, NEW q \in PlanesOf(e.cov), NEW t, q[1] = Storage[t]
    PROVE  e \in Showing(t)
<1>1. q[1] = Storage[e.cov.tex]
  BY ClearsCoverage DEF Entries
<1> QED
  BY <1>1 DEF Showing, Aliases

LEMMA NoTargets == NoStencilImage => TargetPlanes(NoPass) = {}
<1> SUFFICES ASSUME NoStencilImage PROVE TargetPlanes(NoPass) = {}
  OBVIOUS
<1>1. TargetPlanes(NoPass) = PlanesOf(NoCoverage) \cup PlanesOf(NoCoverage)
                               \cup PlanesOf(StencilOf(NoCoverage))
  BY TargetsOfPass DEF NoPass
<1> QED
  BY <1>1, NothingCovered

LEMMA ExecutedSingle ==
    ASSUME DisjointCoverages, NEW h \in Entries, NEW mem, NEW q \in Planes
    PROVE  Executed(mem, <<h>>)[q] = IF q \in PlanesOf(h.cov) THEN Clean(h) ELSE mem[q]
<1>1. \A s : s = <<h>> => s \in Seq(Entries) /\ DOMAIN s = {1} /\ s[1] = h
  OBVIOUS
<1>2. \A s : s = <<h>> => s \in Seq(Entries) /\ Distinct(s) /\ Within(s) = {h}
  BY <1>1 DEF Distinct, Within
<1>3. \A s : s = <<h>> =>
         Executed(mem, s)[q] = IF q \in PlanesOf(h.cov) THEN Clean(h) ELSE mem[q]
  BY <1>2, ExecutedMeaning
<1> QED
  BY <1>3

\* glClear: the new entry is the last word on what it covers, and the open pass,
\* if it goes on, shows none of that.
LEMMA DeferClearKeeps ==
    ASSUME DisjointCoverages, NoStencilImage, FboInv, FboTypeOK',
           NEW cov \in Clears, NEW v \in ClearValues, DeferClear(cov, v)
    PROVE  ContentsKept' /\ NoneOwed'
<1> DEFINE new == Entry(cov, v)
<1>1. /\ memory \in [Planes -> Content] /\ contents \in [Planes -> Content]
      /\ pending \in Seq(Entries) /\ Len(pending) <= MaxPending /\ Distinct(pending)
      /\ pass \in Passes \cup {NoPass}
  BY DEF FboInv, FboTypeOK, Distinct
<1>2. /\ pending' \in Seq(Entries) /\ Distinct(pending')
      /\ contents' \in [Planes -> Content]
  BY DEF FboTypeOK, Distinct
<1>3. /\ Register(cov, v)
      /\ contents' = Cleared(contents, cov, v)
      /\ pass' = IF PassTargets(pass, cov.tex) \/ Overflows(cov) THEN NoPass ELSE pass
      /\ seen' = {}
  BY DEF DeferClear
<1>4. /\ new \in Within(pending')
      /\ \A e \in Within(pending') :
            e = new \/ (e \in Within(pending) /\ e.cov # cov)
      /\ \/ /\ memory' = memory
            /\ \A e \in Within(pending) : e.cov # cov => e \in Within(pending')
         \/ \E h \in Within(pending) :
               /\ Overflows(cov)
               /\ memory' = Executed(memory, <<h>>)
               /\ h.cov # cov
               /\ \A e \in Within(pending) : e # h => e \in Within(pending')
  BY <1>1, <1>3, RegisterMeaning
<1>5. new.cov = cov /\ new.value = v /\ new \in Entries
  BY DEF Entry, Entries
<1>6. Within(pending) \subseteq Entries /\ Within(pending') \subseteq Entries
  BY <1>1, <1>2, WithinMeaning
<1>7. \A q \in Planes : contents[q] = Executed(memory, pending)[q]
  BY DEF FboInv, ContentsKept
<1>8. \A q \in Planes : contents'[q] = IF q \in PlanesOf(cov) THEN Clean(new) ELSE contents[q]
  BY <1>3, <1>5 DEF Cleared, Clean
<1> HIDE DEF new
<1>9. ASSUME NEW q \in Planes
      PROVE  Executed(memory', pending')[q] = contents'[q]
  <2>1. CASE q \in PlanesOf(cov)
    <3>1. Executed(memory', pending')[q] = Clean(new)
      BY <1>2, <1>4, <1>5, <2>1, ExecutedMeaning
    <3> QED
      BY <1>8, <2>1, <3>1
  <2>2. ASSUME q \notin PlanesOf(cov), NEW e \in Within(pending), q \in PlanesOf(e.cov)
        PROVE  Executed(memory', pending')[q] = contents'[q]
    <3>1. contents'[q] = Clean(e)
      BY <1>1, <1>7, <1>8, <2>2, ExecutedMeaning
    <3>2. e.cov # cov
      BY <2>2
    <3>3. CASE e \in Within(pending')
      BY <1>2, <2>2, <3>1, <3>3, ExecutedMeaning
    <3>4. CASE e \notin Within(pending')
      <4>1. memory' = Executed(memory, <<e>>)
        BY <1>4, <3>2, <3>4
      <4>3. memory'[q] = Clean(e)
        BY <1>6, <2>2, <4>1, ExecutedSingle
      <4>4. ASSUME NEW d \in Within(pending'), q \in PlanesOf(d.cov) PROVE FALSE
        <5>1. d # new
          BY <1>5, <2>2, <4>4
        <5>2. d \in Within(pending)
          BY <1>4, <5>1
        <5>3. d = e
          BY <1>1, <2>2, <4>4, <5>2, OneCovers
        <5> QED
          BY <3>4, <5>3
      <4>5. Executed(memory', pending')[q] = memory'[q]
        BY <1>2, <4>4, ExecutedMeaning
      <4> QED
        BY <3>1, <4>3, <4>5
    <3> QED
      BY <3>3, <3>4
  <2>3. CASE q \notin PlanesOf(cov) /\ \A e \in Within(pending) : q \notin PlanesOf(e.cov)
    <3>1. contents'[q] = memory[q]
      BY <1>1, <1>7, <1>8, <2>3, ExecutedMeaning
    <3>2. memory'[q] = memory[q]
      <4>1. ASSUME NEW h \in Within(pending), memory' = Executed(memory, <<h>>)
            PROVE  memory'[q] = memory[q]
        <5> QED
          BY <1>6, <2>3, <4>1, ExecutedSingle
      <4> QED
        BY <1>4, <4>1
    <3>3. \A e \in Within(pending') : q \notin PlanesOf(e.cov)
      BY <1>4, <1>5, <2>3
    <3>4. Executed(memory', pending')[q] = memory'[q]
      BY <1>2, <3>3, ExecutedMeaning
    <3> QED
      BY <3>1, <3>2, <3>4
  <2> QED
    BY <2>1, <2>2, <2>3
<1>10. ContentsKept'
  BY <1>2, <1>9, SamePlanes DEF ContentsKept
<1>11. ASSUME NEW q \in TargetPlanes(pass)', NEW e \in Within(pending'), q \in PlanesOf(e.cov)
       PROVE  FALSE
  <2>1. pass' = pass /\ ~PassTargets(pass, cov.tex) /\ q \in TargetPlanes(pass)
    BY <1>3, <1>11, NoTargets DEF TargetPlanes, StencilPlanes
  <2>2. CASE e = new
    <3>1. PICK c \in {pass.color, pass.depth} \ {NoCoverage} : q[1] = Storage[c.tex]
      BY <1>1, <2>1, TargetsOfPass
    <3>2. q[1] = Storage[cov.tex]
      BY <1>5, <1>11, <2>2, ClearsCoverage
    <3> QED
      BY <2>1, <3>1, <3>2 DEF PassTargets, Attachments, Aliases
  <2>3. CASE e # new
    <3>1. e \in Within(pending)
      BY <1>4, <2>3
    <3> QED
      BY <1>11, <2>1, <3>1 DEF FboInv, NoneOwed
  <2> QED
    BY <2>2, <2>3
<1>12. NoneOwed'
  BY <1>3, <1>11 DEF NoneOwed
<1> QED
  BY <1>10, <1>12

\* A draw: one that continues the pass finds nothing owed to it, one that opens
\* it has the load actions and what it executes first.
LEMMA DrawKeeps ==
    ASSUME DisjointCoverages, NoStencilImage, FboInv, FboTypeOK',
           NEW p \in Passes, NEW t \in Textures \cup {NoTexture}, Draw(p, t)
    PROVE  ContentsKept' /\ NoneOwed'
<1>1. /\ memory \in [Planes -> Content] /\ contents \in [Planes -> Content]
      /\ pending \in Seq(Entries) /\ Distinct(pending)
      /\ FboTypeOK
  BY DEF FboInv, FboTypeOK, Distinct
<1>2. /\ pending' \in Seq(Entries) /\ Distinct(pending')
      /\ contents' \in [Planes -> Content]
  BY DEF FboTypeOK, Distinct
<1>3. /\ contents' = Drawn(contents, TargetPlanes(p))
      /\ pass' \in {p, NoPass}
      /\ seen' = IF t = NoTexture THEN {} ELSE {q \in Planes : q[1] = Storage[t]}
  BY DEF Draw
<1>4. \A q \in Planes : contents[q] = Executed(memory, pending)[q]
  BY DEF FboInv, ContentsKept
<1>5. \A q \in Planes : contents'[q] = IF q \in TargetPlanes(p)
                                       THEN [contents[q] EXCEPT !.drawn = TRUE]
                                       ELSE contents[q]
  BY <1>3 DEF Drawn
<1>6. TargetPlanes(p) \subseteq Planes /\ TargetPlanes(pass)' \subseteq TargetPlanes(p)
  <2>1. TargetPlanes(p) \subseteq Planes
    BY TargetsOfPass
  <2>2. TargetPlanes(pass') \subseteq TargetPlanes(p)
    BY <1>3, NoTargets
  <2>3. TargetPlanes(pass)' = TargetPlanes(pass')
    BY DEF TargetPlanes, StencilPlanes
  <2> QED
    BY <2>1, <2>2, <2>3
<1>7. ASSUME NEW s \in Seq(Entries), \A e \in Within(s) : t # NoTexture => e \notin Showing(t),
             NEW q \in seen', NEW e \in Within(s), q \in PlanesOf(e.cov)
      PROVE  FALSE
  <2>1. t # NoTexture /\ q[1] = Storage[t]
    BY <1>3, <1>7
  <2>2. e \in Entries
    BY <1>7, WithinMeaning
  <2> QED
    BY <1>7, <2>1, <2>2, CoversShowing
<1>8. CASE /\ pass = p
           /\ Sampled(t) = <<>>
           /\ memory' = Drawn(memory, TargetPlanes(p))
           /\ UNCHANGED pending
  <2>1. \A q \in TargetPlanes(p) : \A e \in Within(pending) : q \notin PlanesOf(e.cov)
    BY <1>8 DEF FboInv, NoneOwed
  <2>2. \A q \in TargetPlanes(p) : memory[q] = contents[q]
    BY <1>1, <1>6, <2>1, CurrentWhereNoneOwed DEF FboInv
  <2>3. ASSUME NEW q \in Planes PROVE Executed(memory', pending')[q] = contents'[q]
    <3>1. memory'[q] = IF q \in TargetPlanes(p) THEN [memory[q] EXCEPT !.drawn = TRUE]
                                                ELSE memory[q]
      BY <1>8 DEF Drawn
    <3>2. CASE q \in TargetPlanes(p)
      <4>1. Executed(memory', pending')[q] = memory'[q]
        BY <1>2, <1>8, <2>1, <3>2, ExecutedMeaning
      <4> QED
        BY <1>5, <2>2, <3>1, <3>2, <4>1
    <3>3. CASE q \notin TargetPlanes(p)
      <4>1. memory'[q] = memory[q] /\ contents'[q] = contents[q]
        BY <1>5, <3>1, <3>3
      <4>2. CASE \E e \in Within(pending) : q \in PlanesOf(e.cov)
        <5>1. PICK e \in Within(pending) : q \in PlanesOf(e.cov)
          BY <4>2
        <5>2. Executed(memory, pending)[q] = Clean(e)
          BY <1>1, <5>1, ExecutedMeaning
        <5>3. Executed(memory', pending)[q] = Clean(e)
          BY <1>1, <5>1, ExecutedMeaning
        <5> QED
          BY <1>4, <1>8, <4>1, <5>2, <5>3
      <4>3. CASE \A e \in Within(pending) : q \notin PlanesOf(e.cov)
        <5>1. Executed(memory, pending)[q] = memory[q]
          BY <1>1, <4>3, ExecutedMeaning
        <5>2. Executed(memory', pending)[q] = memory'[q]
          BY <1>1, <4>3, ExecutedMeaning
        <5> QED
          BY <1>4, <1>8, <4>1, <5>1, <5>2
      <4> QED
        BY <4>2, <4>3
    <3> QED
      BY <3>2, <3>3
  <2>4. ContentsKept'
    BY <1>2, <2>3, SamePlanes DEF ContentsKept
  <2>5. \A e \in Within(pending) : t # NoTexture => e \notin Showing(t)
    <3> SUFFICES ASSUME t # NoTexture, NEW e \in Within(pending), e \in Showing(t)
                 PROVE  FALSE
      OBVIOUS
    <3>1. Within(Kept(pending, Showing(t))) = Within(pending) \cap Showing(t)
      BY <1>1, KeptMeaning
    <3>2. Kept(pending, Showing(t)) = <<>>
      BY <1>8 DEF Sampled, Touching
    <3> QED
      BY <3>1, <3>2 DEF Within
  <2>6. NoneOwed'
    <3>1. \A q \in seen' : \A e \in Within(pending) : q \notin PlanesOf(e.cov)
      BY <1>1, <1>7, <2>5
    <3> QED
      BY <1>6, <1>8, <2>1, <3>1 DEF NoneOwed
  <2> QED
    BY <2>4, <2>6
<1>9. ASSUME NEW fc \in BOOLEAN, NEW fd \in BOOLEAN,
             OpenFboPass(Executed(memory, Sampled(t)), NotSampled(t), p, fc, fd)
      PROVE  ContentsKept' /\ NoneOwed'
  <2> DEFINE mem == Executed(memory, Sampled(t))
             rest == NotSampled(t)
  <2>1. /\ rest \in Seq(Entries) /\ Distinct(rest)
        /\ \A e \in Within(rest) : t # NoTexture => e \notin Showing(t)
        /\ Executed(mem, rest) = Executed(memory, pending)
    BY <1>1, SampledFirst
  <2>2. OpenFboPass(mem, rest, p, fc, fd)
    BY <1>9
  <2> HIDE DEF mem, rest
  <2>3. /\ Within(pending') \subseteq Within(rest)
        /\ \A q \in TargetPlanes(p) : \A e \in Within(pending') : q \notin PlanesOf(e.cov)
        /\ \A q \in TargetPlanes(p) :
              memory'[q] = [Executed(mem, rest)[q] EXCEPT !.drawn = TRUE]
        /\ \A q \in Planes \ TargetPlanes(p) :
              Executed(memory', pending')[q] = Executed(mem, rest)[q]
    BY <2>1, <2>2, OpenedMeaning
  <2>4. ASSUME NEW q \in Planes PROVE Executed(memory', pending')[q] = contents'[q]
    <3>1. CASE q \in TargetPlanes(p)
      <4>1. Executed(memory', pending')[q] = memory'[q]
        BY <1>2, <2>3, <3>1, ExecutedMeaning
      <4>2. Executed(mem, rest)[q] = contents[q]
        BY <1>4, <2>1
      <4>3. memory'[q] = [contents[q] EXCEPT !.drawn = TRUE]
        BY <2>3, <3>1, <4>2
      <4> QED
        BY <1>5, <3>1, <4>1, <4>3
    <3>2. CASE q \notin TargetPlanes(p)
      BY <1>4, <1>5, <2>1, <2>3, <3>2
    <3> QED
      BY <3>1, <3>2
  <2>5. ContentsKept'
    BY <1>2, <2>4, SamePlanes DEF ContentsKept
  <2>6. \A q \in seen' : \A e \in Within(rest) : q \notin PlanesOf(e.cov)
    BY <1>7, <2>1
  <2>7. NoneOwed'
    BY <1>6, <2>3, <2>6 DEF NoneOwed
  <2> QED
    BY <2>5, <2>7
<1> QED
  BY <1>8, <1>9 DEF Draw

\* Executing everything.
LEMMA MaterializeAllKeeps ==
    ASSUME DisjointCoverages, NoStencilImage, FboInv, FboTypeOK', MaterializeAll
    PROVE  ContentsKept' /\ NoneOwed'
<1>1. memory' = contents /\ contents' = contents /\ pending' = <<>>
  BY DEF MaterializeAll, FboInv, ContentsKept
<1>2. Within(pending') = {}
  BY <1>1 DEF Within
<1>3. /\ pending' \in Seq(Entries) /\ Distinct(pending')
      /\ contents' \in [Planes -> Content]
  BY DEF FboTypeOK, Distinct
<1>4. \A q \in Planes : Executed(memory', pending')[q] = contents'[q]
  <2> SUFFICES ASSUME NEW q \in Planes PROVE Executed(memory', pending')[q] = contents'[q]
    OBVIOUS
  <2>1. Executed(memory', pending')[q] = memory'[q]
    BY <1>2, <1>3, ExecutedMeaning
  <2> QED
    BY <1>1, <2>1
<1> QED
  BY <1>2, <1>3, <1>4, SamePlanes DEF ContentsKept, NoneOwed

\* A write of a part of a texture: what is owed to the texture comes first.
LEMMA UploadKeeps ==
    ASSUME DisjointCoverages, NoStencilImage, FboInv, FboTypeOK', NEW t \in Textures, Upload(t)
    PROVE  ContentsKept' /\ NoneOwed'
<1> DEFINE planes == {q \in Planes : q[1] = Storage[t]}
           mem == Executed(memory, Touching(t))
           rest == Elsewhere(t)
<1>1. /\ pending \in Seq(Entries) /\ Distinct(pending)
      /\ contents \in [Planes -> Content]
  BY DEF FboInv, FboTypeOK, Distinct
<1>2. /\ pending' \in Seq(Entries) /\ Distinct(pending')
      /\ contents' \in [Planes -> Content]
  BY DEF FboTypeOK, Distinct
<1>3. /\ memory' = Drawn(mem, planes)
      /\ pending' = rest
      /\ contents' = Drawn(contents, planes)
      /\ pass' \in PassAfter(Touching(t))
      /\ seen' = {}
  BY DEF Upload
<1>4. /\ Executed(mem, rest) = Executed(memory, pending)
      /\ rest \in Seq(Entries) /\ Distinct(rest)
      /\ Within(rest) = Within(pending) \cap (Entries \ Showing(t))
  BY <1>1, ExecutedInTwo, KeptMeaning DEF Touching, Elsewhere
<1>5. \A q \in Planes : contents[q] = Executed(mem, rest)[q]
  BY <1>4 DEF FboInv, ContentsKept
<1> HIDE DEF mem, rest
<1>6. \A q \in planes : \A e \in Within(rest) : q \notin PlanesOf(e.cov)
  BY <1>4, CoversShowing
<1>7. \A q \in Planes :
         /\ memory'[q] = IF q \in planes THEN [mem[q] EXCEPT !.drawn = TRUE] ELSE mem[q]
         /\ contents'[q] = IF q \in planes THEN [contents[q] EXCEPT !.drawn = TRUE]
                                           ELSE contents[q]
  BY <1>3 DEF Drawn
<1>8. planes \subseteq Planes
  OBVIOUS
<1> HIDE DEF planes
<1>9. ASSUME NEW q \in Planes PROVE Executed(memory', rest)[q] = contents'[q]
  <2>1. CASE \E e \in Within(rest) : q \in PlanesOf(e.cov)
    <3>1. PICK e \in Within(rest) : q \in PlanesOf(e.cov)
      BY <2>1
    <3>2. q \notin planes
      BY <1>6, <3>1
    <3>3. Executed(mem, rest)[q] = Clean(e)
      BY <1>4, <3>1, ExecutedMeaning
    <3>4. Executed(memory', rest)[q] = Clean(e)
      BY <1>4, <3>1, ExecutedMeaning
    <3> QED
      BY <1>5, <1>7, <3>2, <3>3, <3>4
  <2>2. CASE \A e \in Within(rest) : q \notin PlanesOf(e.cov)
    <3>1. Executed(mem, rest)[q] = mem[q]
      BY <1>4, <2>2, ExecutedMeaning
    <3>2. Executed(memory', rest)[q] = memory'[q]
      BY <1>4, <2>2, ExecutedMeaning
    <3> QED
      BY <1>5, <1>7, <3>1, <3>2
  <2> QED
    BY <2>1, <2>2
<1>10. ContentsKept'
  BY <1>2, <1>3, <1>9, SamePlanes DEF ContentsKept
<1>11. NoneOwed'
  <2>1. TargetPlanes(pass)' = TargetPlanes(pass')
    BY DEF TargetPlanes, StencilPlanes
  <2>2. pass' \in {pass, NoPass}
    BY <1>3 DEF PassAfter
  <2>3. TargetPlanes(pass') \subseteq TargetPlanes(pass)
    BY <2>2, NoTargets
  <2>4. \A q \in TargetPlanes(pass) : \A e \in Within(pending') : q \notin PlanesOf(e.cov)
    BY <1>3, <1>4 DEF FboInv, NoneOwed
  <2> QED
    BY <1>3, <2>1, <2>3, <2>4 DEF NoneOwed
<1> QED
  BY <1>10, <1>11

LEMMA FboInvInit == NoStencilImage /\ FboInit => FboInv
<1> SUFFICES ASSUME NoStencilImage, FboInit PROVE FboInv
  OBVIOUS
<1>1. FboTypeOK
  BY FboTypeInit
<1>2. pending = <<>> /\ contents = memory /\ seen = {} /\ pass = NoPass
  BY DEF FboInit
<1>3. Within(pending) = {}
  BY <1>2 DEF Within
<1>4. \A q \in Planes : Executed(memory, pending)[q] = contents[q]
  BY <1>2 DEF Executed
<1>5. ContentsKept
  BY <1>1, <1>4, SamePlanes DEF ContentsKept, FboTypeOK
<1> QED
  BY <1>1, <1>3, <1>5 DEF FboInv, NoneOwed

LEMMA FboInvNext ==
    ASSUME DisjointCoverages, NoStencilImage
    PROVE  FboInv /\ [FboNext]_fboVars => FboInv'
<1> SUFFICES ASSUME FboInv, [FboNext]_fboVars PROVE FboInv'
  OBVIOUS
<1>1. FboTypeOK'
  BY FboTypeNext DEF FboInv
<1>2. CASE UNCHANGED fboVars
  <2>1. Within(pending)' = Within(pending) /\ TargetPlanes(pass)' = TargetPlanes(pass)
    BY <1>2 DEF fboVars, Within, TargetPlanes, StencilPlanes
  <2>2. NoneOwed'
    BY <1>2, <2>1 DEF FboInv, NoneOwed, fboVars
  <2>3. ContentsKept'
    BY <1>2 DEF FboInv, ContentsKept, fboVars
  <2> QED
    BY <1>1, <2>2, <2>3 DEF FboInv
<1>3. CASE FboNext
  <2>1. ContentsKept' /\ NoneOwed'
    BY <1>1, <1>3, DeferClearKeeps, DrawKeeps, MaterializeAllKeeps, UploadKeeps DEF FboNext
  <2> QED
    BY <1>1, <2>1 DEF FboInv
<1> QED
  BY <1>2, <1>3

LEMMA FboInvInvisible ==
    ASSUME DisjointCoverages, NoStencilImage, FboInv
    PROVE  DeferralInvisible
<1>1. FboTypeOK /\ ContentsKept /\ NoneOwed
  BY DEF FboInv
<1>2. seen \cup TargetPlanes(pass) \subseteq Planes
  BY <1>1, TargetsOfPass DEF FboTypeOK
<1>3. UsesCurrent
  BY <1>1, <1>2, CurrentWhereNoneOwed DEF UsesCurrent, NoneOwed
<1> QED
  BY <1>1, <1>3 DEF DeferralInvisible

\* Nobody can tell that clears of framebuffer attachments are deferred: executing
\* what is pending gives what GL defines, and every sample, read-back and pass has
\* seen it, through whichever view of the memory.  Of coverages that overlap this
\* is not true, nor of a separate stencil image, which is not looked up.
THEOREM SpecDeferralInvisible ==
    ASSUME DisjointCoverages, NoStencilImage
    PROVE  FboSpec => []DeferralInvisible
<1>1. FboInit => FboInv
  BY FboInvInit
<1>2. FboInv /\ [FboNext]_fboVars => FboInv'
  BY FboInvNext
<1>3. FboInv => DeferralInvisible
  BY FboInvInvisible
<1> QED
  BY <1>1, <1>2, <1>3, PTL DEF FboSpec

=============================================================================
