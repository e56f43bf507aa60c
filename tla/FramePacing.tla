---------------------------- MODULE FramePacing ----------------------------
(***************************************************************************)
(* The ring of per-frame data buffers of a context and its pacing against  *)
(* the GPU (src/context/MetalFrameGraph.mm).  Draws bump-allocate vertex,  *)
(* index and uniform bytes from the current ring buffer; a commit moves to *)
(* the next one.  A semaphore with one permit per ring buffer is meant to  *)
(* keep the CPU from writing a buffer the GPU still reads.                 *)
(*                                                                         *)
(* A generation is what lies between two calls of advanceRingBuffer; the   *)
(* ring buffer of generation g is g % RingCount, and its write offset      *)
(* starts at zero.  Two command buffers of one generation use disjoint     *)
(* ranges, two of different generations of one ring buffer the same bytes. *)
(* The GL thread runs one call at a time; the GPU finishes command buffers *)
(* in commit order and their handlers signal.  A call that waits for its   *)
(* own command buffer returns with nothing in flight, so such a call is a  *)
(* step enabled once the GPU is idle; it may also give up before, or the   *)
(* command buffer end with an error ("giveUp"; "lateGpu" for the waits     *)
(* whose end gives a slot away, or is taken for one).                      *)
(*                                                                         *)
(* A drain that gives up leaves its committed command buffer current       *)
(* ("spent").  Metal gives no encoder for it, so that what is recorded     *)
(* until the next commit goes nowhere; and that commit attaches no handler *)
(* to it, while the ring advances: the permit of the generation is lost.   *)
(***************************************************************************)
EXTENDS Naturals, Sequences, FiniteSets

CONSTANTS
    RingCount,      \* kRingBufferCount, also the permits of frameSemaphore
    MaxGeneration,  \* bound of the model: generations in a run
    MaxInFlight,    \* bound of the model: command buffers in flight
    Workloads       \* the sets of calls the applications considered make

Calls == {"draw", "fboDraw", "rotate", "standalone", "compute", "clear",
          "present", "endFrame", "finish", "readback", "copyPixels",
          "drainStandalone", "layeredClear", "resize", "resolve",
          "writeRegion", "tessDraw", "giveUp", "lateGpu"}

\* The calls of an application that writes the ring, and opens a command
\* buffer, only with a slot: it draws to the default framebuffer without
\* tessellation, writes no pixels into it, creates no command buffer of its
\* own under pressure, and the GPU returns a slot before a wait for it ends.
PacedCalls == Calls \ {"fboDraw", "rotate", "standalone", "compute",
                       "writeRegion", "tessDraw", "lateGpu"}

ASSUME PacingAssumption ==
    /\ RingCount \in Nat \ {0}
    /\ MaxGeneration \in Nat
    /\ MaxInFlight \in Nat
    /\ Workloads \subseteq SUBSET Calls

VARIABLES
    permits,        \* the value of frameSemaphore
    acquired,       \* ringSlotAcquired
    gen,            \* generations begun: ringBufferIndex = gen % RingCount
    open,           \* currentCommandBuffer != nil
    spent,          \* it is committed already: its lease is empty
    reads,          \* generations the open command buffer reads
    inFlight,       \* committed, unfinished command buffers, oldest first
    content,        \* content[i]: generation whose bytes ring buffer i holds
    lost,           \* permits whose slot was forgotten without a signal
    pendingClear,   \* hasPendingClear
    pendingPresent, \* a pass on the default target awaits a present
    at,             \* "idle", or where a call is waiting
    workload        \* the calls this application makes

vars == <<permits, acquired, gen, open, spent, reads, inFlight, content, lost,
          pendingClear, pendingPresent, at, workload>>

clears == <<pendingClear, pendingPresent>>

\* The current command buffer and what has been committed.
buffers == <<acquired, gen, open, spent, reads, inFlight, lost>>

Slot(g) == g % RingCount

CommandBuffers == [reads : SUBSET (0 .. MaxGeneration), signals : BOOLEAN]

GpuIdle == inFlight = << >>

\* Room for another generation and command buffer within the model's bounds.
Bounded == gen < MaxGeneration /\ Len(inFlight) < MaxInFlight

-----------------------------------------------------------------------------
\* The constructor acquires the first slot.
Init ==
    /\ permits = RingCount - 1
    /\ acquired = TRUE
    /\ gen = 0
    /\ open = FALSE
    /\ spent = FALSE
    /\ reads = {}
    /\ inFlight = << >>
    /\ lost = 0
    /\ content = [i \in 0 .. RingCount - 1 |-> 0]
    /\ pendingClear = FALSE
    /\ pendingPresent = FALSE
    /\ at = "idle"
    /\ workload \in Workloads

-----------------------------------------------------------------------------
(* What the calls are made of.                                             *)

\* acquireRingSlot, as a guard and as the permits that are left: it waits
\* only if this generation has not acquired its slot yet.  A wait that times
\* out leaves the generation without a slot, and its caller goes on.
CanAcquire == acquired \/ permits > 0
AcquireReturns == CanAcquire \/ "lateGpu" \in workload
\* Mutant: every draw of a generation takes a permit.
PermitsAfterAcquire_EveryDraw == permits - 1

PermitsAfterAcquire == IF acquired \/ ~CanAcquire THEN permits ELSE permits - 1

\* ringSuballocate: bytes of generation g now lie in its ring buffer.
Write(g) == content' = [content EXCEPT ![Slot(g)] = g]

\* commitWithFrameSignal: the handler signals the semaphore, whether or not
\* this generation ever acquired a slot.  A spent command buffer gets none, and
\* the slot, if it is held, will be forgotten.
CommitWithFrameSignal(held) ==
    IF spent
    THEN lost' = (IF held THEN lost + 1 ELSE lost) /\ UNCHANGED inFlight
    ELSE /\ inFlight' = Append(inFlight, [reads |-> reads, signals |-> TRUE])
         /\ UNCHANGED lost

\* commit and commitAndWait attach no signal, and commit nothing twice.
CommitWithoutSignal ==
    inFlight' = IF spent THEN inFlight
                ELSE Append(inFlight, [reads |-> reads, signals |-> FALSE])

\* Mutant: the next generation inherits the slot of the last one.
Advance_KeepsSlot == gen' = gen + 1 /\ UNCHANGED acquired

\* advanceRingBuffer.
Advance == gen' = gen + 1 /\ acquired' = FALSE

Close == open' = FALSE /\ spent' = FALSE /\ reads' = {}

\* The current command buffer is committed, and waited for in vain: it stays.
Spend ==
    /\ inFlight' = Append(inFlight, [reads |-> reads, signals |-> FALSE])
    /\ open' = TRUE
    /\ spent' = TRUE
    /\ reads' = {}

\* A pass on the default framebuffer takes the pending clear; a caller that
\* gets no encoder for a spent command buffer may return before.
DefaultPass ==
    \/ pendingClear' = FALSE /\ pendingPresent' = TRUE
    \/ spent /\ UNCHANGED clears

\* A draw.  It acquires a slot, ends up recording into the current command
\* buffer and allocates from the ring.  With "rotate" the open buffer is
\* committed after the slot was acquired (too many distinct resources, or a
\* deferred framebuffer clear that has to be materialised first), and the
\* draw carries on in a fresh buffer and a fresh generation.
Draw(target, rotate) ==
    /\ at = "idle"
    /\ target \in workload
    /\ AcquireReturns
    /\ permits' = PermitsAfterAcquire
    /\ open' = TRUE
    /\ IF rotate
       THEN /\ "rotate" \in workload
            /\ open
            /\ Bounded
            /\ CommitWithFrameSignal(CanAcquire)
            /\ Advance
            /\ spent' = FALSE
            /\ reads' = {gen + 1}
            /\ Write(gen + 1)
       ELSE /\ acquired' = CanAcquire
            /\ reads' = IF spent THEN {} ELSE reads \cup {gen}
            /\ Write(gen)
            /\ UNCHANGED <<gen, spent, inFlight, lost>>
    /\ IF target = "draw" THEN DefaultPass ELSE UNCHANGED clears
    /\ UNCHANGED <<at, workload>>

\* A standalone command buffer (an upload, a blit, a fence) is created while
\* the throttle is under pressure: the current one is committed to make room.
PressureFlush ==
    /\ at = "idle"
    /\ "standalone" \in workload
    /\ open
    /\ Bounded
    /\ CommitWithFrameSignal(acquired)
    /\ Advance
    /\ Close
    /\ UNCHANGED <<permits, content, clears, at, workload>>

\* A compute dispatch puts its argument buffers into the ring, acquiring
\* nothing, in a command buffer of its own that it then waits for.
ComputeDispatch ==
    /\ at = "idle"
    /\ "compute" \in workload
    /\ Len(inFlight) < MaxInFlight
    /\ Write(gen)
    /\ inFlight' = Append(inFlight, [reads |-> {gen}, signals |-> FALSE])
    /\ at' = "gpu"
    /\ UNCHANGED <<permits, acquired, gen, open, spent, reads, lost, clears, workload>>

\* The resolve of a multisampled attachment into the default framebuffer: it
\* records with a slot, like a draw, and allocates nothing from the ring.
Resolve ==
    /\ at = "idle"
    /\ "resolve" \in workload
    /\ AcquireReturns
    /\ permits' = PermitsAfterAcquire
    /\ acquired' = CanAcquire
    /\ open' = TRUE
    /\ DefaultPass
    /\ UNCHANGED <<gen, spent, reads, inFlight, content, lost, at, workload>>

\* writeDefaultColorRegion: records a blit, and acquires no slot.
WriteRegion ==
    /\ at = "idle"
    /\ "writeRegion" \in workload
    /\ open' = TRUE
    /\ DefaultPass
    /\ UNCHANGED <<permits, acquired, gen, spent, reads, inFlight, content, lost, at,
                   workload>>

\* encodeClear: acquires, commits the open buffer, and acquires again.
Clear ==
    /\ at = "idle"
    /\ "clear" \in workload
    /\ AcquireReturns
    /\ permits' = PermitsAfterAcquire
    /\ IF open
       THEN /\ Bounded
            /\ CommitWithFrameSignal(CanAcquire)
            /\ Advance
            /\ Close
            /\ pendingPresent' = FALSE
            /\ at' = "clear"
            /\ UNCHANGED pendingClear
       ELSE /\ acquired' = CanAcquire
            /\ pendingClear' = TRUE
            /\ pendingPresent' = TRUE
            /\ UNCHANGED <<gen, open, spent, reads, inFlight, lost, at>>
    /\ UNCHANGED <<content, workload>>

ClearAcquires ==
    /\ at = "clear"
    /\ AcquireReturns
    /\ permits' = PermitsAfterAcquire
    /\ acquired' = CanAcquire
    /\ pendingClear' = TRUE
    /\ pendingPresent' = TRUE
    /\ at' = "idle"
    /\ UNCHANGED <<gen, open, spent, reads, inFlight, content, lost, workload>>

\* flushPendingClear opens a command buffer if there is none, but acquires
\* no slot.
OpenAfterFlush == open \/ pendingClear

\* present: flushes the pending clear and commits, if there is anything to
\* show and a command buffer to show it with.
Present ==
    /\ at = "idle"
    /\ "present" \in workload
    /\ pendingClear' = FALSE
    /\ IF OpenAfterFlush /\ (pendingClear \/ pendingPresent)
       THEN /\ Bounded
            /\ CommitWithFrameSignal(acquired)
            /\ Advance
            /\ Close
            /\ pendingPresent' = FALSE
       ELSE UNCHANGED buffers /\ UNCHANGED pendingPresent
    /\ UNCHANGED <<permits, content, at, workload>>

\* endFrame: commits whatever is open; transient state goes either way, the
\* pending clear stays.
EndFrame ==
    /\ at = "idle"
    /\ "endFrame" \in workload
    /\ IF open
       THEN Bounded /\ CommitWithFrameSignal(acquired) /\ Advance /\ Close
       ELSE UNCHANGED buffers
    /\ pendingPresent' = FALSE
    /\ UNCHANGED <<permits, content, pendingClear, at, workload>>

\* finish: flushes the pending clear, commits, and drains.
Finish ==
    /\ at = "idle"
    /\ "finish" \in workload
    /\ pendingClear' = FALSE
    /\ pendingPresent' = (pendingPresent \/ pendingClear)
    /\ IF OpenAfterFlush
       THEN Bounded /\ CommitWithFrameSignal(acquired) /\ Advance /\ Close
       ELSE UNCHANGED buffers
    /\ at' = "gpu"
    /\ UNCHANGED <<permits, content, workload>>

\* A wait for everything in flight is over, or gives up.
GpuWaited ==
    /\ at = "gpu"
    /\ GpuIdle \/ "giveUp" \in workload
    /\ at' = "idle"
    /\ UNCHANGED <<permits, buffers, content, clears, workload>>

\* Mutant: the slot is forgotten without a signal.
ReleaseSlotNow_Silent == acquired' = FALSE /\ UNCHANGED permits

\* Mutant: the slot is signalled but not forgotten.
ReleaseSlotNow_KeepsSlot ==
    /\ permits' = IF acquired THEN permits + 1 ELSE permits
    /\ UNCHANGED <<acquired, workload>>

\* The slot of a buffer that was waited for is released by the GL thread,
\* and only if it was acquired; the generation goes on.
ReleaseSlotNow ==
    /\ permits' = IF acquired THEN permits + 1 ELSE permits
    /\ acquired' = FALSE

\* flushForReadback: a wait for the open buffer, if there is one.
Readback ==
    /\ at = "idle"
    /\ "readback" \in workload
    /\ GpuIdle
    /\ open /\ ~spent
    /\ ReleaseSlotNow
    /\ Close
    /\ pendingPresent' = FALSE
    /\ UNCHANGED <<gen, inFlight, content, lost, pendingClear, at, workload>>

\* copyPixels flushes the pending clear first.
CopyPixels ==
    /\ at = "idle"
    /\ "copyPixels" \in workload
    /\ GpuIdle
    /\ OpenAfterFlush /\ ~spent
    /\ ReleaseSlotNow
    /\ Close
    /\ pendingClear' = FALSE
    /\ pendingPresent' = FALSE
    /\ UNCHANGED <<gen, inFlight, content, lost, at, workload>>

\* flushForReadback or copyPixels when the wait gives up, ends with an error,
\* or does not begin because the command buffer is spent: it is committed and
\* forgotten, with no handler to signal, and the generation goes on with the
\* slot it has.
GiveUp ==
    /\ at = "idle"
    /\ "giveUp" \in workload
    /\ Len(inFlight) < MaxInFlight
    /\ \/ "readback" \in workload /\ open /\ UNCHANGED clears
       \/ /\ "copyPixels" \in workload
          /\ OpenAfterFlush
          /\ pendingClear' = FALSE
          /\ pendingPresent' = (pendingPresent \/ pendingClear)
    /\ CommitWithoutSignal
    /\ Close
    /\ UNCHANGED <<permits, acquired, gen, content, lost, at, workload>>

\* drainCurrentCommandBufferForStandaloneEncoding, and the synchronous drain
\* of a layered clear: the ring advances only if the slot was acquired.
DrainStandalone ==
    /\ at = "idle"
    /\ "drainStandalone" \in workload
    /\ GpuIdle
    /\ open /\ ~spent
    /\ gen < MaxGeneration
    /\ ReleaseSlotNow
    /\ gen' = IF acquired THEN gen + 1 ELSE gen
    /\ Close
    /\ pendingPresent' = FALSE
    /\ UNCHANGED <<inFlight, content, lost, pendingClear, at, workload>>

\* The drain of a standalone encoding, or of a tessellation draw, when its wait
\* gives up: it returns before the slot is released, the ring advanced and the
\* command buffer forgotten.  A drain of a spent command buffer changes nothing.
DrainStandaloneFails ==
    /\ at = "idle"
    /\ "giveUp" \in workload
    /\ {"drainStandalone", "tessDraw"} \cap workload # {}
    /\ open /\ ~spent
    /\ Len(inFlight) < MaxInFlight
    /\ Spend
    /\ UNCHANGED <<permits, acquired, gen, content, lost, clears, at, workload>>

\* encodeMetalTessellationDraw.  Unless it draws to the default framebuffer
\* and samples nothing, it drains the open command buffer first; then come its
\* compute passes, in command buffers of their own that read ring bytes no
\* slot was acquired for, each waited for with the outcome ignored.
TessCompute(target, drains) ==
    /\ at = "idle"
    /\ "tessDraw" \in workload
    /\ target = "tessFbo" => drains
    /\ drains => ~spent
    /\ IF drains /\ open
       THEN /\ GpuIdle
            /\ gen < MaxGeneration
            /\ ReleaseSlotNow
            /\ gen' = IF acquired THEN gen + 1 ELSE gen
            /\ Close
            /\ pendingPresent' = FALSE
       ELSE UNCHANGED <<permits, acquired, gen, open, spent, reads, pendingPresent>>
    /\ Len(inFlight) < MaxInFlight
    /\ Write(gen')
    /\ inFlight' = Append(inFlight, [reads |-> {gen'}, signals |-> FALSE])
    /\ at' = target
    /\ UNCHANGED <<lost, pendingClear, workload>>

\* Its render pass is left open on the default framebuffer, still without a
\* slot, and waited for on a framebuffer object.
TessRenderDefault ==
    /\ at = "tessDefault"
    /\ GpuIdle \/ "giveUp" \in workload
    /\ open' = TRUE
    /\ DefaultPass
    /\ at' = "idle"
    /\ UNCHANGED <<permits, acquired, gen, spent, reads, inFlight, content, lost, workload>>

TessRenderFbo ==
    /\ at = "tessFbo"
    /\ GpuIdle
    /\ gen < MaxGeneration
    /\ ReleaseSlotNow
    /\ gen' = IF acquired THEN gen + 1 ELSE gen
    /\ Close
    /\ at' = "idle"
    /\ UNCHANGED <<inFlight, content, lost, clears, workload>>

\* When that wait gives up, its command buffer stays current, like a drain's.
TessRenderFboFails ==
    /\ at = "tessFbo"
    /\ "giveUp" \in workload
    /\ Len(inFlight) < MaxInFlight
    /\ Spend
    /\ at' = "idle"
    /\ UNCHANGED <<permits, acquired, gen, content, lost, clears, workload>>

\* The synchronous drain of a layered clear when its wait gives up, or its
\* command buffer is spent: the slot is released all the same.
LayeredClearLate ==
    /\ at = "idle"
    /\ {"layeredClear", "lateGpu"} \subseteq workload
    /\ open
    /\ Bounded
    /\ CommitWithoutSignal
    /\ ReleaseSlotNow
    /\ gen' = IF acquired THEN gen + 1 ELSE gen
    /\ Close
    /\ pendingPresent' = FALSE
    /\ UNCHANGED <<content, lost, pendingClear, at, workload>>

\* The asynchronous drain of a layered clear: without a slot it is a plain
\* commit that will not signal, and the generation goes on.
LayeredClear ==
    /\ at = "idle"
    /\ "layeredClear" \in workload
    /\ open
    /\ Bounded
    /\ IF acquired
       THEN CommitWithFrameSignal(acquired)
       ELSE CommitWithoutSignal /\ UNCHANGED lost
    /\ gen' = IF acquired THEN gen + 1 ELSE gen
    /\ acquired' = FALSE
    /\ Close
    /\ pendingPresent' = FALSE
    /\ UNCHANGED <<permits, content, pendingClear, at, workload>>

\* resize: the open buffer is committed, and then everything is drained; a
\* spent one is only dropped, and the generation goes on with its slot.
Resize ==
    /\ at = "idle"
    /\ "resize" \in workload
    /\ IF open /\ ~spent
       THEN /\ Bounded
            /\ CommitWithFrameSignal(acquired)
            /\ Advance
            /\ at' = "gpu"
       ELSE UNCHANGED <<acquired, gen, inFlight, lost, at>>
    /\ Close
    /\ pendingPresent' = FALSE
    /\ UNCHANGED <<permits, content, pendingClear, workload>>

\* The GPU finishes the oldest command buffer and its handler signals.
GpuFinish ==
    /\ ~GpuIdle
    /\ permits' = IF Head(inFlight).signals THEN permits + 1 ELSE permits
    /\ inFlight' = Tail(inFlight)
    /\ UNCHANGED <<acquired, gen, open, spent, reads, content, lost, clears, at, workload>>

-----------------------------------------------------------------------------
Call ==
    \/ \E target \in {"draw", "fboDraw"}, rotate \in BOOLEAN : Draw(target, rotate)
    \/ PressureFlush \/ ComputeDispatch \/ Clear \/ Present \/ EndFrame
    \/ Finish \/ Readback \/ CopyPixels \/ GiveUp \/ DrainStandalone
    \/ DrainStandaloneFails \/ LayeredClear \/ LayeredClearLate \/ Resize \/ Resolve \/ WriteRegion
    \/ \E target \in {"tessDefault", "tessFbo"}, drains \in BOOLEAN :
          TessCompute(target, drains)

Next ==
    \/ Call
    \/ ClearAcquires \/ TessRenderDefault \/ TessRenderFbo \/ TessRenderFboFails
    \/ GpuWaited
    \/ GpuFinish

\* The GPU makes progress, and a thread whose wait is over goes on.
Fairness ==
    /\ WF_vars(GpuFinish)
    /\ WF_vars(ClearAcquires)
    /\ WF_vars(TessRenderDefault)
    /\ WF_vars(TessRenderFbo)
    /\ WF_vars(GpuWaited)

Spec == Init /\ [][Next]_vars

FairSpec == Spec /\ Fairness

-----------------------------------------------------------------------------
\* Every variable has its type.
TypeOK ==
    /\ permits \in Nat
    /\ acquired \in BOOLEAN
    /\ gen \in 0 .. MaxGeneration
    /\ open \in BOOLEAN
    /\ spent \in BOOLEAN
    /\ reads \subseteq 0 .. MaxGeneration
    /\ inFlight \in Seq(CommandBuffers)
    /\ content \in [0 .. RingCount - 1 -> 0 .. MaxGeneration]
    /\ lost \in Nat
    /\ pendingClear \in BOOLEAN
    /\ pendingPresent \in BOOLEAN
    /\ at \in {"idle", "clear", "gpu", "tessDefault", "tessFbo"}
    /\ workload \in Workloads

\* Signals still to come from the command buffers of q from the i-th on.
SignalsFrom(q, i) == Cardinality({j \in i .. Len(q) : q[j].signals})

SignalsToCome == SignalsFrom(inFlight, 1)

PermitsHeld == permits + SignalsToCome + (IF acquired THEN 1 ELSE 0)

\* Each permit is accounted for: what the semaphore, the thread and the
\* handlers to come hold between them, and the commits of spent command
\* buffers have lost, is at least one permit per ring buffer.  So a permit is
\* lost by a failed drain only, and one at most by each.  As long as only paced
\* calls are made, none is made up either.
SlotsBalanced ==
    /\ PermitsHeld + lost >= RingCount
    /\ workload \subseteq PacedCalls => PermitsHeld + lost = RingCount

\* No permit is ever lost.
NoPermitLost == PermitsHeld >= RingCount

\* "Each frame waits (acquireRingSlot) before writing, and the GPU
\* completion handler signals when it finishes the command buffer for that
\* slot": the bytes an unfinished command buffer reads are still those it
\* was recorded with.
SlotNotOverwritten ==
    \A i \in DOMAIN inFlight : \A g \in inFlight[i].reads : content[Slot(g)] = g

\* The same, for an application whose calls are all paced: no ring buffer is
\* rewritten while the GPU reads it.
PacedSlotNotOverwritten ==
    workload \subseteq PacedCalls => SlotNotOverwritten

\* Until failed drains have lost every permit, a slot can always be had again,
\* so that no draw waits in vain.
SlotsReturn == []<>(CanAcquire \/ lost >= RingCount)

=============================================================================
