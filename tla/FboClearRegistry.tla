-------------------------- MODULE FboClearRegistry --------------------------
(***************************************************************************)
(* Deferred clears of framebuffer attachments (the "C48" registry of       *)
(* context/MetalFrameGraph.mm).                                            *)
(*                                                                         *)
(* glClear on a texture attachment is not executed: it is recorded in a    *)
(* registry, and the next render pass that covers exactly the same slices  *)
(* takes it as its load action ("folds" it).  Every other reader or writer *)
(* of the texture must have the clear executed first ("materialized").     *)
(* An open pass is continued by draws with the same attachments, which do  *)
(* not consult the registry at all.                                        *)
(*                                                                         *)
(* What the GL specification makes of a sequence of clears and draws is    *)
(* kept in contents; memory is what the GPU has been told to do.  Commands *)
(* take effect in the order they are encoded: the order of command buffers *)
(* is the subject of TextureUploadOrder.  The model is that of the serial  *)
(* encoder; a pass has one colour attachment, one depth/stencil attachment *)
(* and possibly a separate stencil attachment.                             *)
(***************************************************************************)
EXTENDS Naturals, Sequences, FiniteSets, FiniteSetsExt

CONSTANTS
    Textures,       \* Metal textures, views included
    NoTexture,      \* the null texture
    Storage,        \* the texture whose memory a texture shows
    Layers,         \* number of slices of a texture
    Clears,         \* the coverages glClear is called with
    Passes,         \* the attachments of the framebuffers drawn to
    ClearValues,    \* clear values
    MaxPending      \* kMaxPendingFboClears

\* A coverage names slices of one aspect of a texture: the one slice if
\* arrayLength is 0, otherwise that many from slice on.
NoCoverage == [tex |-> NoTexture, aspect |-> "none", slice |-> 0, arrayLength |-> 0]

NoPass == [color |-> NoCoverage, depth |-> NoCoverage, stencil |-> NoCoverage]

Coverages(aspect) ==
    {cov \in [tex : Textures, aspect : {aspect}, slice : 0 .. Layers - 1,
              arrayLength : 0 .. Layers] : cov.slice + cov.arrayLength <= Layers}

ASSUME FboAssumption ==
    /\ NoTexture \notin Textures
    /\ Layers \in Nat /\ MaxPending \in Nat \ {0}
    /\ ClearValues # {}
    /\ Clears \subseteq UNION {Coverages(a) : a \in {"color", "depth", "stencil"}}
    /\ Passes \subseteq [color : Coverages("color") \cup {NoCoverage},
                         depth : Coverages("depth") \cup {NoCoverage},
                         stencil : Coverages("stencil") \cup {NoCoverage}]

Planes == {<<Storage[t], a, s>> : t \in Textures,
                                  a \in {"color", "depth", "stencil"},
                                  s \in 0 .. Layers - 1}

\* The slices that a clear of the coverage, or a pass over it, writes.
PlanesOf(cov) ==
    IF cov = NoCoverage THEN {}
    ELSE {<<Storage[cov.tex], cov.aspect, s>> :
              s \in IF cov.arrayLength = 0 THEN {cov.slice}
                    ELSE cov.slice .. cov.slice + cov.arrayLength - 1}

VARIABLES
    memory,     \* what the GPU commands issued so far leave in each plane
    contents,   \* what GL defines each plane to hold
    pending,    \* pendingFboClears
    pass,       \* attachments of the open pass (activeFboPassSignature), or NoPass
    seen        \* planes the last command read

fboVars == <<memory, contents, pending, pass, seen>>

-----------------------------------------------------------------------------
Cleared(mem, cov, v) ==
    [p \in Planes |-> IF p \in PlanesOf(cov) THEN [base |-> v, drawn |-> FALSE]
                      ELSE mem[p]]

\* A draw, or an upload of a part, leaves some of what was there.
Drawn(mem, planes) ==
    [p \in Planes |-> IF p \in planes THEN [mem[p] EXCEPT !.drawn = TRUE]
                      ELSE mem[p]]

\* The effect of executing entries from the first to the last.
Executed(mem, entries) ==
    [p \in Planes |->
        LET covering == {i \in DOMAIN entries : p \in PlanesOf(entries[i].cov)}
        IN  IF covering = {} THEN mem[p]
            ELSE [base |-> entries[Max(covering)].value, drawn |-> FALSE]]

\* The entries that are in S, in their order.
Kept(entries, S) ==
    LET kept == {i \in DOMAIN entries : entries[i] \in S}
        Place(i) == Cardinality({j \in kept : j <= i})
    IN  [n \in 1 .. Cardinality(kept) |-> entries[CHOOSE i \in kept : Place(i) = n]]

\* pendingFboClearTexAliases: a view, its parent and its siblings.
Aliases_Pointer(t, u) == t = u

Aliases(t, u) == Storage[t] = Storage[u]

Attachments(p) == {p.color, p.depth, p.stencil} \ {NoCoverage}

\* activeFboPassTargetsTexture.
PassTargets(p, t) == \E cov \in Attachments(p) : Aliases(cov.tex, t)

Entries == [cov : Clears, value : ClearValues]
Showing(t) == {e \in Entries : Aliases(e.cov.tex, t)}

Touching(t) == Kept(pending, Showing(t))
Elsewhere(t) == Kept(pending, Entries \ Showing(t))

-----------------------------------------------------------------------------
FboInit ==
    /\ memory = [p \in Planes |-> [base |-> CHOOSE v \in ClearValues : TRUE,
                                   drawn |-> FALSE]]
    /\ contents = memory
    /\ pending = <<>>
    /\ pass = NoPass
    /\ seen = {}

-----------------------------------------------------------------------------
Entry(cov, v) == [cov |-> cov, value |-> v]

\* A clear of a coverage that is pending already takes its entry over; a full
\* registry executes its oldest entry first.
Register_Appends(cov, v) ==
    /\ pending' = Append(pending, Entry(cov, v))
    /\ UNCHANGED memory

Register(cov, v) ==
    \/ \E i \in DOMAIN pending :
          /\ pending[i].cov = cov
          /\ pending' = [pending EXCEPT ![i].value = v]
          /\ UNCHANGED memory
    \/ /\ \A i \in DOMAIN pending : pending[i].cov # cov
       /\ Len(pending) < MaxPending
       /\ pending' = Append(pending, Entry(cov, v))
       /\ UNCHANGED memory
    \/ /\ \A i \in DOMAIN pending : pending[i].cov # cov
       /\ Len(pending) >= MaxPending
       /\ memory' = Executed(memory, <<Head(pending)>>)
       /\ pending' = Append(Tail(pending), Entry(cov, v))

\* Executing an entry closes the open encoder, and with it the pass.
Overflows(cov) ==
    /\ Len(pending) >= MaxPending
    /\ \A i \in DOMAIN pending : pending[i].cov # cov

\* glClear: deferFboClear.  A clear of a target of the open pass ends it.
DeferClear(cov, v) ==
    /\ Register(cov, v)
    /\ contents' = Cleared(contents, cov, v)
    /\ pass' = IF PassTargets(pass, cov.tex) \/ Overflows(cov)
                THEN NoPass ELSE pass
    /\ seen' = {}

-----------------------------------------------------------------------------
(* A translated draw.                                                      *)

\* consumePendingFboClearForAttachment: the entries with the very coverage of an
\* attachment, if the pass may fold that attachment.
Folding(may, cov) == {e \in Entries : may /\ e.cov = cov}

\* The stencil aspect of the depth attachment's texture.
StencilOf(cov) ==
    IF cov = NoCoverage THEN cov ELSE [cov EXCEPT !.aspect = "stencil"]

\* Where a pass keeps its stencil: in the separate image if there is one.
StencilPlanes(p) ==
    PlanesOf(IF p.stencil # NoCoverage THEN p.stencil ELSE StencilOf(p.depth))

TargetPlanes(p) ==
    PlanesOf(p.color) \cup PlanesOf(p.depth) \cup StencilPlanes(p)

LoadAction(mem, planes, entries) ==
    IF entries = <<>> THEN mem
    ELSE [q \in Planes |-> IF q \in planes
                           THEN [base |-> entries[1].value, drawn |-> FALSE]
                           ELSE mem[q]]

\* The pass is opened on the registry rest: entries that fold leave it, the
\* others on the pass's colour and depth/stencil textures are executed, and the
\* load actions take effect when the pass begins.  A separate stencil image is
\* not looked up.
OpenFboPass(mem, rest, p, foldColor, foldDepth) ==
    LET color    == Folding(foldColor, p.color)
        depth    == Folding(foldDepth, p.depth)
        stencil  == Folding(foldDepth, StencilOf(p.depth))
        folded   == color \cup depth \cup stencil
        onTarget == UNION {Showing(cov.tex) :
                              cov \in {p.color, p.depth} \ {NoCoverage}}
        executed == Executed(mem, Kept(rest, onTarget \ folded))
        loaded   == LoadAction(LoadAction(LoadAction(executed,
                        PlanesOf(p.color), Kept(rest, color)),
                        PlanesOf(p.depth), Kept(rest, depth)),
                        StencilPlanes(p), Kept(rest, stencil))
    IN  /\ memory' = Drawn(loaded, TargetPlanes(p))
        /\ pending' = Kept(rest, Entries \ (onTarget \cup folded))

\* encodeTranslatedDraw into the attachments p, sampling the texture t or none
\* (but none of the attachments: GL leaves feedback loops undefined).  The
\* entries of the sampled texture are executed first.  The draw continues the
\* open pass if its attachments are the same and it is eligible; afterwards an
\* ineligible draw's pass is closed.
Sampled(t) == IF t = NoTexture THEN <<>> ELSE Touching(t)
NotSampled(t) == IF t = NoTexture THEN pending ELSE Elsewhere(t)

Draw(p, t) ==
    LET mem  == Executed(memory, Sampled(t))
        rest == NotSampled(t)
    IN  /\ t # NoTexture => ~PassTargets(p, t)
        /\ \/ /\ pass = p
              /\ Sampled(t) = <<>>
              /\ memory' = Drawn(memory, TargetPlanes(p))
              /\ UNCHANGED pending
           \/ \E foldColor, foldDepth \in BOOLEAN :
                  OpenFboPass(mem, rest, p, foldColor, foldDepth)
        /\ pass' \in {p, NoPass}
        /\ contents' = Drawn(contents, TargetPlanes(p))
        /\ seen' = IF t = NoTexture THEN {}
                   ELSE {q \in Planes : q[1] = Storage[t]}

-----------------------------------------------------------------------------
(* The other readers and writers.                                          *)

\* Executing an entry closes the open pass.  A command that finds none to
\* execute may leave it open.
PassAfter(executed) == IF executed = <<>> THEN {pass, NoPass} ELSE {NoPass}

\* materializeAllPendingFboClears: readback, finish, blit, texture barrier, and
\* the draws that do not fold.
MaterializeAll ==
    /\ memory' = Executed(memory, pending)
    /\ pending' = <<>>
    /\ pass' \in PassAfter(pending)
    /\ seen' = Planes
    /\ UNCHANGED contents

\* materializePendingFboClearsForTexture, then a write of part of the texture.
Upload(t) ==
    LET planes == {q \in Planes : q[1] = Storage[t]}
    IN  /\ memory' = Drawn(Executed(memory, Touching(t)), planes)
        /\ pending' = Elsewhere(t)
        /\ contents' = Drawn(contents, planes)
        /\ pass' \in PassAfter(Touching(t))
        /\ seen' = {}

FboNext ==
    \/ \E cov \in Clears, v \in ClearValues : DeferClear(cov, v)
    \/ \E p \in Passes, t \in Textures \cup {NoTexture} : Draw(p, t)
    \/ MaterializeAll
    \/ \E t \in Textures : Upload(t)

FboSpec == FboInit /\ [][FboNext]_fboVars

-----------------------------------------------------------------------------
(* Properties                                                              *)

Content == [base : ClearValues, drawn : BOOLEAN]

\* The registry stays within its limit and holds a coverage once, however
\* clears, folds and materializations follow each other.
FboTypeOK ==
    /\ memory \in [Planes -> Content]
    /\ contents \in [Planes -> Content]
    /\ pending \in Seq(Entries)
    /\ Len(pending) <= MaxPending
    /\ \A i, j \in DOMAIN pending : pending[i].cov = pending[j].cov => i = j
    /\ pass \in Passes \cup {NoPass}
    /\ seen \subseteq Planes

\* Deferring loses nothing and reorders nothing: executing what is pending, in
\* the registry's order, on what the GPU was told so far gives exactly what GL
\* defines, after any sequence of clears, draws, uploads and reads.
ContentsKept == Executed(memory, pending) = contents

\* Whatever samples or reads a texture finds in memory what GL defines it to
\* hold, through a view as well; and while a pass is open so do its attachments:
\* the draws that opened it and the draws that continue it, which do not look at
\* the registry, have seen every clear, and the last one.
UsesCurrent ==
    \A q \in seen \cup TargetPlanes(pass) : memory[q] = contents[q]

\* Nobody can tell that clears are deferred: not at the end, and not meanwhile.
DeferralInvisible == ContentsKept /\ UsesCurrent

=============================================================================
