# Verification of the AppGL runtime

AppGL is an OpenGL implementation on top of Metal.  This directory holds TLA+
models of the parts of it where several things happen at once (the GL thread, the
GPU, completion handlers, dispatch queues, other threads) or where work is
deferred, the TLC runs that check them, and TLAPS proofs about each of them.

All paths below are relative to the repository; `FG` is
`src/context/MetalFrameGraph.mm`, `CS` is `src/context/MetalCommandSubmission.h`
and `GC` is `src/context/GLContext.mm`.

    tlc -workers 2 -config MCContextRegistry_all.cfg MCContextRegistry
    tlapm RuntimeProofs.tla

## 1. The system

A GL entry point (generated) finds the calling thread's `GLContext` and calls it.
A context changes its own GL state and objects on its own thread, and owns a
`MetalFrameGraph` that turns draws, clears and transfers into Metal encoders on
one *current* command buffer.  The frame graph gets command buffers from
`MetalCommandSubmission`, which bounds how many are outstanding.  The GPU executes
the committed buffers of a queue in order; each has a completion handler that runs
on a thread of Metal's.  Above the contexts is one `Runtime` per process, with the
registry of contexts, diagnostics, the memory pressure observer and the coverage
table.

| component | state | operations | who interferes | module |
|---|---|---|---|---|
| Command submission throttle (`CS`) | semaphore of tokens, count in flight, submit and completion counts; per lease its buffer, its token, its retained objects | make, commit, commit-and-wait, abandon, drain, adopt an object, pressure flush | completion handlers, timeouts, failing allocation | `CommandSubmission`, abstract: `CommandBufferPool` |
| Frame pacing ring (`FG`) | frame semaphore, slot acquired, ring index and offset, open buffer, owed clear and present | draw, clear, present, end of frame, finish, readback, copy, drains, resize, compute, tessellation, resolves, pixel writes | GPU and handlers, waits that give up | `FramePacing` |
| Deferred clears of the default framebuffer (`GC`, `FG`) | mask and values owed by the context, mask and values owed by the frame graph, batch of deferred draws, open encoder | glClear, draws, pixel transfers, present, finish, read, resize | rotation of the command buffer at any draw | `DefaultClear`, abstract: `DefaultFramebuffer` |
| CPU shadow of the default framebuffer (`GC`, `GLContextImmediate.inc.mm`, `GLContextReadback.inc.mm`) | the bytes, whether they are valid, a deferred fill | glClear, translated and immediate draws, glBitmap, glDrawPixels, glAccum, blits, resolves, glReadPixels | the deferred clears, which the same calls owe and flush in their own order | the same |
| Deferred framebuffer clears (`FG`) | registry of up to 16 entries, attachments of the open pass | glClear on a framebuffer object, draws that fold or continue, everything that reads or writes a texture | views of the same memory, overlapping coverage | `FboClearRegistry` |
| Buffer renaming (`GC`) | shadow and Metal buffer of an object, submit index of its last binding, batch of deferred draws and its keepalives | bind, write, respecify, flush, commit | GPU, handlers in any order, commits of other buffers | `BufferRename` |
| Texture upload ordering (`FG`) | read set of the open buffer, last-read sequence per texture, completed sequence | draw, upload by three routes, commits of four kinds | GPU, handlers in any order | `TextureUploadOrder` |
| Memory pressure (`MetalMemoryPressure.h`, `AppGLMemoryPressure.mm`, `GC`) | published OS level, latched peak, shared hysteresis state, last level of each context | OS event, boundary, critical recheck, diagnostics | the event handler, other contexts | `MemoryPressure` |
| Context lifecycle (`AppGLRuntime.cpp`) | set of live contexts, diagnostics context, last inventory, a thread-local current context per thread | construct, make current, destroy, write diagnostics | other threads, address reuse | `ContextRegistry` |
| Shaders, programs, pipelines (`GLObjectStore.h`, `GLContextShader*.inc.mm`, `AppGLRuntime.cpp`) | object tables over one name pool, attachment counts, delete flags, current program, stages of each pipeline, sampler cache | create, delete, attach, detach, link, use, stage, bind, draw | names that are reused | `ProgramLifetime` |
| Residency of textures (`GC`, `GLContextTexture*.inc.mm`) | shadow and Metal texture of each level, pending producers, marks left by rendering and views | upload, mipmap generation, draw, image store, sample, view, eviction, restoration | the GPU, the pressure pass, failing waits and allocations | `TextureResidency` |
| Coverage bookkeeping (`CoverageStore.cpp`) | per entry point its level, first test and note, and two atomics published from them | four marks | other threads' marks | `CoverageStore`, abstract: `CoverageTable` |

How they interact.  The frame graph's commits go through the throttle (a lease);
the throttle's submit and completion counts are what renaming compares its stamps
with; the frame graph's `completedCommitSeq` is a second watermark, of its own
commits only, which uploads compare with.  Pacing slots, read sets, batches and
owed clears all hang on the current command buffer, so that every place that
commits it (there are a dozen) has to carry each of them over.  The two kinds of
deferred clears meet in the current render encoder.  A drain of pending producers is
a readback of the frame graph's; an eviction is what a pressure pass does.  Pressure
passes and diagnostics look at contexts from outside.

What makes each correct:

* throttle: tokens are neither lost nor made, whatever is committed settles, what
  a buffer uses lives until the GPU is through, and a drain that succeeds means it;
* pacing: no ring buffer is rewritten while an unfinished command buffer reads it,
  and slots come back;
* clears and the shadow: deferring is invisible: reads, presents, samples and draws
  see what OpenGL's immediate semantics would give them, whether a valid shadow or
  the target answers; no encoder is opened inside another;
* renaming and uploads: every draw sees the contents at the time it was issued;
* lifetime: nothing refers to an erased object, whose name may be another's by now,
  and a deleted object goes with its last use;
* residency: the Metal texture never gets an earlier content back, and is released
  only when every level can be rebuilt;
* pressure: every event is answered by one pass, out-of-memory is raised only under
  critical pressure, the hysteresis neither flaps nor inverts;
* contexts: diagnostics never walk a destroyed context and find a live one or its
  post-mortem;
* coverage: lock-free marks take effect atomically and are never lost.

The components without a module (queries and syncs, the parallel encoders of a batch,
caches, translation, emulation, formats, sparse textures, state setters, immediate
mode, loaders) are listed in `PROJECT.json` with the reason for each; section 7 has
the general ones, section 8 the plan.

## 2. The modules and the code

`PROJECT.json` maps each definition to its lines.  The general conventions:

* One action per call of the GL thread, unless the call waits or another thread can
  observe the middle of it; then it is one action per atomic access, critical
  section or wait (`CommandSubmission`, `MemoryPressure`, `ContextRegistry`,
  `CoverageStore`).
* The GPU is one action that finishes the oldest committed buffer; a completion
  handler is an action enabled from then on, so that handlers run in any order.
* Which calls an application makes is a constant set of *workloads*; a run picks one
  in its initial state and the variable `workload` never changes.  A property that
  only holds of some applications has the condition on `workload` in it, so that the
  condition is visible and the rest of the model is explored without it.
* Operators whose name ends in `_Something` are mutants: they say how the definition
  that follows them could be wrong, and are used nowhere in the specification.
* Specifications that are proved about in one module have a prefix in their names:
  `RegistryInit` .. `RegistryTypeOK` and `Pressure...` (`RuntimeProofs`),
  `Residency...` and `Upload...` (`TextureProofs`), `Fbo...` (`ClearProofs`).

**CommandSubmission.**  `lease[s]` is the `MetalCommandBufferLease` held in the
variable `s` of the GL thread: whether it has a buffer, owns its token and has
handed over its token and its objects (the flags `tokenReleaseTransferred_` and
`retainedReleaseTransferred_`).  `released[b]` and `pinned[b]` are what its shared
pointers lead to.  Making a buffer is four steps (`BeginMake`, `TakeToken` or
`TokenTimeout`, `CountToken`, `FinishMake` or `NilBuffer`), a drain takes tokens one
at a time, and a completion handler is `RecordCompleted`, `UncountToken`,
`SignalToken`, `ReleaseRetained`, the order of `CS:417-510`.  A dispatch has a lease of its own, in
a variable other than `Current`; when it overflows the ring (`AdoptRingFallback`) its own
command buffer reads the object, while the current lease is the one that retains it.  `strayed`
remembers what was handed so to a current lease that is committed already.
`CommandBufferPool` is what the layer promises: at most `Bound` outstanding buffers,
each unborn, leased, submitted, finished or settled, and a drain that reports
success only if nothing is submitted.  The refinement maps a buffer's life to its
token, its place in the queue and its handler's progress.

**FramePacing.**  A *generation* is what lies between two `advanceRingBuffer`.  Two
command buffers of one generation use disjoint bytes of its ring buffer; two
generations `RingCount` apart use the same bytes.  `content[i]` is the generation
whose bytes ring buffer `i` holds and `reads` the generations a command buffer
reads.  Each call is one action, except for the waits in the middle of `glClear` and
of the calls that wait for the GPU.  `GiveUp` is a wait that ends before the GPU,
with the slot kept (`FG:23318`); `LayeredClearLate` is the synchronous drain before a
layered clear when its wait gives up, or finds the buffer committed already
(`FG:20491-20500`).  A drain for standalone encoding or of a tessellation draw that
fails (`DrainStandaloneFails`, `TessRenderFboFails`) leaves the committed buffer current:
it is `spent`, nothing more is recorded in it, and the next commit attaches no handler to
it while the ring goes on.  `lost` counts the permits that go this way.
`PacedCalls` are the calls that write the ring or open a command buffer with a slot
only; `PacedSlotNotOverwritten` is about applications that make no others.

**DefaultClear, DefaultFramebuffer.**  `pendingMask` is the context's debt and
`owedMask` the frame graph's; `actual` is what the encoded commands leave, `shadow`,
`shadowValid` and `fill` are the copy in memory.  The color attachment has parts, so
that a glBitmap, a rectangle or a blit can cover some (`Inside`).  The helper
operators are functions of the frame graph's state (a record), so that a call
composes them in the order the code calls them.  The history variable `drawn` is the
image the calls make in OpenGL; `colorIn` says which copies the calls so far have
left current.  An application that does not mix them (no "mixed") writes a part of
the shadow only while that is current, and draws with the GPU alone only while the
target is; what the others get is in section 5.  `Image` is the shadow's color while
that is valid, else what is encoded, owed, batched and pending on top of each other;
`NothingLost` says that it is `drawn`, and `ImageSpec` that what reads and presents
show is what `DefaultFramebuffer` with the image `drawn` shows.

**FboClearRegistry.**  `contents` is what OpenGL makes of the calls, `memory` what
the GPU has been told.  `pending` is the registry in its order.  Folding is
nondeterministic per attachment kind (the code decides by eligibility of the draw),
and the textures of a view share `Storage`.  `Executed` says at once what executing
entries one after the other leaves, and `Kept` what a loop that erases entries leaves of
them: in the form of a set or of a function rather than a recursion, so that they can be
reasoned about.

**BufferRename.**  Contents are the number of the write that made them; allocations
are reused as soon as nobody holds them.  A draw's reference records where it reads
and what it should find.  A workload says which buffers there are, which commits may
come between a binding and its commit, and which failures: of a drain
(`WriteAfterTimeout`) or of the allocation of a rename (`WriteUnrenamed`), after both of
which the code writes in place.  An application without either is `Orderly`.
`OpenIndex` is the position the open buffer is *expected* to get.

**TextureUploadOrder.**  Draws and blits are commands in the open buffer or in
committed ones; `After` is what a texture holds after a sequence of them.  The
properties speak of positions, a buffer and a place in it: `Found(p, t)` is what the
GPU will find in `t` when it gets to `p`, the contents of the last blit before.
The three routes are the CPU write at once, the blit in the open buffer, and the
blit in a buffer of its own; when one of the blits finds no memory or command buffer, the
CPU writes after all (`UploadUnstaged`).  A wait that gives up has committed without
folding the read set, and drops the buffer (`WaitGivesUp`).  The draws here sample; those
that write a texture are in `TextureResidency`.  Failing standalone drains are in
`FramePacing` only.

**MemoryPressure.**  The handler's load and compare-exchange, a context's load of the
published level, its exchange of the peak and the locked step of the machine are all
separate.  `Watermarks` are the six thresholds of the device's class.

**ContextRegistry.**  `memory[c]` is what is at an address; a freed one is taken by
the next context.  The history variable `disturbed` remembers whether some context
was destroyed while another thread had it current, which the code cannot prevent.

**ProgramLifetime.**  `shaders` and `programs` are the two object tables over one name
pool, lowest free name first, so that a name is used again at once.  `resolved` is
the sampler cache, keyed by program name.  A deleted shader waits for its counter of
attachments, a deleted program for whatever `Referenced` recomputes; the calls that
take a last reference away differ in the order in which they look and forget.

**TextureResidency.**  One texture with immutable storage.  A level's content is
"current" or "stale" in the shadow and in Metal; a dropped shadow is one that
`maybeDropMipLevelShadows` released.  `pending` and `rendered` are what the eviction
looks at.  An upload meets whatever the GPU has yet to write: nothing waits for that, and
it may land over the upload (`Overtaken`).  `Extras` switches that on, and whatever else
residency does not survive, one at a time.

**CoverageStore, CoverageTable.**  The fast path of a mark is two loads
(`loadState`, `loadNotes`), the slow one takes the mutex, updates, and publishes the
note before the level.  `CoverageTable` is the table with marks that take effect at
one instant between call and return.

## 3. The runs

| run | shows | states (about) | bounds |
|---|---|---|---|
| `submission_safety` | tokens are conserved, the watermark and drains are sound (`CompletionSound`), retained objects outlive the GPU's use (but for what strayed), the safety part of the abstract pool is implemented; with timeouts, failing allocations and the ring fallback | 412k | 3 buffers, bound 2, reserve 1, two lease variables (the current one and a dispatch's), one object |
| `submission_live` | calls return, what is alive is held by an outstanding buffer, the pool is implemented with its fairness; without timeouts and ring fallback | 155k | the same |
| `pacing` | whatever is called and whichever waits give up, permits are lost only by commits of command buffers that failed drains left current, and until all are lost every draw gets a slot in the end; for paced calls no permit is made up and no ring buffer is rewritten while the GPU reads it | 1.8M | 3 ring buffers, 5 generations, 4 buffers in flight |
| `clear` | neither the deferred clears nor the shadow of the default framebuffer can be seen, no call is lost, no encoder is nested | 262k | 2 parts of the color, depth, 2 values, 3 applications |
| `rename` | draws of orderly applications find the contents of their time; whatever commits or fails, their buffers live as long as needed (both `DrawsUndisturbed`), and shadow and Metal buffer agree | 5.2M | 2 buffers, 4 allocations, 2 writes, 3 commits, 3 applications |
| `upload` | every draw of a tracked application samples what the texture held and the last upload stays (`UploadsOrdered`); whatever is called or fails, the watermark catches up | 8.7M | 2 textures, 3 uploads, 3 commits, 2 unfinished buffers, 2 commands in the open one, 4 applications |
| `pressure` | one pass per event and out-of-memory only under critical pressure (`ReactionJustified`), no event lost, hysteresis sound | 403k | 2 contexts, 2 events, 2 ratios |
| `registry_disjoint` | deferred framebuffer clears lose and reorder nothing (`DeferralInvisible`), if their coverages do not overlap | 71k | 3 textures (one a view), 2 slices, registry of 2, 2 values |
| `coverage_marks` | marks are entered, and the table is implemented | 904k | 3 threads, one entry point, 2 notes, 2 tests |
| `context` | diagnostics walk live contexts only, find one, or have a post-mortem; what is remembered is alive (`RegistrySound`) | 14k | 4 threads, 3 addresses |
| `program` | counters are exact, nothing refers to an erased object, what is deleted and unused goes | 1.0M | 3 names, 2 stages, one pipeline |
| `residency` | Metal never gets an earlier content back, evicted levels can be rebuilt, as long as no upload meets GPU writes and nothing else of section 5 happens | 619 | 3 levels |

Each takes less than two and a half minutes with two workers.

Why the bounds are enough.  With three command buffers and a bound of two, one waits
for the tokens of the others, and all orders of two handlers and a creation occur;
proofs cover the rest.  Five generations go around a ring of three nearly twice, so
that a ring buffer is rewritten twice,
and four buffers in flight are one more than the ring holds.  A lost or misordered
clear needs two attachments and two values; a shadow that is partly behind needs a
part inside a transfer and one outside.  A wrong rename needs a write while one
draw is in flight, another in the batch and a third command buffer to be confused
with; the fourth allocation makes reuse possible but not necessary.  A misordered
upload needs a reader, an upload and a second upload, over two unfinished buffers
and an open one.  A lost peak needs two contexts and two events; the ratios lie in
bands between an exit and a target where the machine has memory, and what it
does with every ratio is proved.  A registry of two overflows at the third clear.
Three threads in the coverage table are two racing writers and a reader on the fast
path.  Three names are a program, a shader of each stage or another program, and an
erased one that is named anew.  Three levels are the one that is written, one above
whose shadow may be dropped, and a bystander; the state is the texture's alone, which
is why the run is small.  Four threads are a walker, a destroyer, a creator that reuses the address and
one that makes contexts current.

`CHECK_DEADLOCK FALSE` appears in `pacing`, `rename` and `upload`, whose runs end when
a bound is reached, and in `program`, where an application may have nothing left to call.  Symmetry is used in `upload`, `coverage_marks` and `context`, over sets
of interchangeable model values and for safety only.

Every property of a passing run has a mutant in `PROJECT.json`, a plausible error in
one definition that makes TLC report that property.

## 4. Fairness

* `CommandSubmission`: the GPU finishes what is committed (`GpuFinish`), Metal runs
  every completion handler to its end (`Handler`), a thread inside a call goes on
  (`Continue`).  Nothing obliges the application to make a call.  All weak: none of
  these is disabled by others once enabled, except a wait for a token, which the only
  thread that takes tokens is waiting in.
* `FramePacing`: the GPU, and the thread whose wait is over.
* `MemoryPressure`: the handler, a boundary that has begun, and *strong* fairness of
  some context's reaching a boundary: an application keeps reaching boundaries in
  some context, though diagnostics on other threads may interleave with them for
  ever.  An application that stops drawing is not promised a pass.

The other modules have no fairness and no liveness property.

## 5. Disagreements between code and comments, and limits

The passing runs exclude the following by their instance or by a condition on the
workload.  Each of the first list has a configuration of its own, with which TLC
reports the violation (`tlc -workers 2 -config <configuration> <module>`):

| configuration | module | violates | what happens |
|---|---|---|---|
| `MCFramePacing_fbo.cfg` | `MCFramePacing` | `SlotNotOverwritten` | `FG:30494`: the handler signals the frame semaphore for every command buffer, also for one that `flushPendingClear` opened without a slot; with draws into framebuffer objects a later draw writes a ring buffer that the GPU still reads, against `FG:30377` |
| `MCFramePacing_drainfails.cfg` | `MCFramePacing` | `NoPermitLost` | `FG:23346`: a drain for standalone encoding that fails leaves its committed buffer current and the slot held; the next commit attaches no handler to it, and `advanceRingBuffer` forgets the slot |
| `MCCommandSubmission_ring.cfg` | `MCCommandSubmission` | `EveryUseRetained` | `FG:30460`: a compute dispatch that overflows the ring hands its one-off buffer to the current lease; when that is committed and not settled, its handler releases the buffer under the dispatch |
| `MCBufferRename_fails.cfg`, also with `AllocationFails` | `MCBufferRename` | `DrawsFindContents` | `GC:23837`, `GC:23885`: the result of the drain before a write is dropped, and a rename that finds no memory falls through; either way the write lands in place, under draws that are still to read |
| `MCTextureUploadOrder_givesup.cfg` | `MCTextureUploadOrder` | `SampledAtDrawTime` | `FG:23319`: a wait that gives up has committed without folding the read set, and drops the buffer; the next upload sees no hazard and writes under its draws |
| `MCTextureUploadOrder_unstaged.cfg` | `MCTextureUploadOrder` | `SampledAtDrawTime` | `GC:15242`: an ordered upload that finds no memory falls back to the immediate route that the hazard test has ruled out |
| `MCFboClearRegistry_coalesce.cfg` | `MCFboClearRegistry` | `ContentsKept` | `FG:20136`: a clear of a slice, of all layers, and of the slice again: the third takes the place of the first in the registry, so that the layered one is executed after it, against `FG:20145` |
| `MCDefaultClear_mixed.cfg` | `MCDefaultClear` | `NothingLost` | `GC:34945`: glBitmap after drawing makes a stale shadow valid as a whole; what the GPU drew outside it is lost at the next upload or read |
| `MCDefaultClear_converted.cfg` | `MCDefaultClear` | `NothingLost` | `FG:7363`: a read of another format, answered from the shadow, has handed a depth and color clear over without executing it; the next hand-over overwrites the mask, and the depth clear is lost, against `GLContextState.inc.mm:172` |
| `MCDefaultClear_fboread.cfg` | `MCDefaultClear` | `NoNestedEncoder` | `FG:20951`: a read has materialised the fill, so the next draw uploads the shadow, which flushes an owed clear while the encoder of a framebuffer object is open, against `FG:23027` |
| `MCDefaultClear_resolve.cfg` | `MCDefaultClear` | `NothingLost` | `GC:31300`: a multisample resolve into the default framebuffer does not hand on an owed glClear, which is then executed over the result |
| `MCProgramLifetime_relink.cfg` | `MCProgramLifetime` | `NothingLeaks` | `AppGLRuntime.cpp:10403`: after a relink has dropped a stage, staging the program again forgets the reference, and a deleted program is never erased |
| `MCTextureResidency_extras.cfg` with `Stores`, `UpperLeft` or `ViewDeletes` | `MCTextureResidency` | `Rebuildable` | `GC:7287`: image stores, draws after glClipControl, and draws through a deleted view leave no trace once drained, and the texture is evicted although its shadow is behind |
| the same with `Overtakes` | `MCTextureResidency` | `MetalCurrent` | `FG:17162`: the hazard test knows what draws sample, not what they write; an upload goes out at once, and a draw or image store on its way lands over it |
| the same with `Updates` | `MCTextureResidency` | `MetalCurrent` | `GLContextTextureCore.inc.mm:2541`: an upload to one level writes the shadows of the others back over what the GPU has drawn |
| the same with `AllocFails` | `MCTextureResidency` | `Rebuildable` | `GC:14810`: the mark of an evicted texture is cleared before a rebuild that fails |
| the same with `WaitFails` | `MCTextureResidency` | `MetalCurrent` | `GC:10416`: the pending bits are cleared after a wait that gave up, and a dropped level is read back too early |

The second list can be reproduced by changing the condition or the instance named:

* `FG:30460`: a compute dispatch that overflows the ring hands its one-off buffer to
  the current lease, which may be empty or settled; it is then never released,
  against `CS:73`.  (`CommandSubmission` with `RingFallback = TRUE`,
  `AliveWhileOutstanding`.)
* `FG:7363`: a color clear, a draw into a framebuffer object, a depth clear: the
  second hand-over overwrites the mask the frame graph still owes, against
  `GLContextState.inc.mm:172` and `FG:27394`.  (`DefaultClear` with a workload that
  draws into framebuffer objects and clears single attachments, `NothingLost`.)
* `FG:22992`: `present` never uploads the shadow, so that what only glDrawPixels or a
  blit has written is not on the screen; and a scissored glClear clears the whole
  target, which only the shadow makes up for.  (`Present` and `GlClearScissored`,
  whose `colorIn` says so.)
* `FG:20194`, `FG:17240`: a draw is stamped with the next submit index, but a separate
  upload buffer commits first and takes it, against `GLObjectStore.h:198`.
  (`BufferRename` with "separate", `DrawsFindContents`.)
* `FG:7706`: a draw that rotates the command buffer after its buffers were stamped is
  encoded under the next index, against `FG:7703`.  (`BufferRename` with "rotate".)
* `FG:20481`: an asynchronous drain for a layered clear commits without folding the
  read set, against `FG:17123`, and is rescued only by what happens to follow.
  (`TextureUploadOrder` with both "rotate" and "layeredClear",
  `SampledAtDrawTime`.)
* `FG:12436`, `FG:17430`: draws on the lean descriptor path do not note what they
  sample, against `FG:17108`.  ("descriptor".)
* `FG:17236`: a separate upload buffer is not itself noted as a writer, so that a
  second upload from the CPU may land before the first blit, against `FG:17225`.
  ("reupload".)
* `FG:10005`: an exact match is folded although a younger overlapping entry is
  executed before the pass, against `FG:9980`.  (`FboClearRegistry` with
  `LayeredClears` and a pass over one slice, `UsesCurrent`.)
* `FG:10080`: a separate stencil image is looked up neither for folding nor for
  execution, against `FG:19846`.  (`FboClearRegistry` with a depth and a separate
  stencil image.)

And some are beyond the models:

* `GC:49145`: a draw with a pipeline splices the fragment stage into the program of the
  vertex stage, whose own fragment shader a later glUseProgram does not get back.
* `GC:49294`: the program synthesised for a pipeline with tessellation is kept under
  the names of its stages, and survives relinks and reused names.
* `src/context/GLContextShaderLink.inc.mm:304`: a failed relink restores the executable
  but marks it unlinked, so that a second failed one loses it.
* `GC:34088`: an evicted texture is no texture for glIsTexture and glTexSubImage until it
  is bound again.
* `GC:32421`: a blit out of the default framebuffer reads the bytes of a valid shadow
  without writing a deferred fill first.
* `src/runtime/AppGLGroup8.cpp:2656` says that AppGL executes synchronously; glGetSynciv
  reports a fence as signaled while its commands are in flight.

## 6. Proofs

All for every value of the constants under the named assumptions of the module.

**CommandSubmissionProofs.**  `SubmissionAssumption`: a positive bound, natural
reserve and bounds.  `TokensConserved` says that semaphore, outstanding buffers and
thread account for `Bound` tokens.  It is not inductive alone: that committing or
abandoning returns a token once rests on the shape of leases (a lease with a buffer
owns its token, one without has handed everything on), on different leases holding
different buffers, on the handler's stage determining whether the token is out, and
on a buffer in an open lease being uncommitted.  `IInv` is the conjunction of these
with the types.  From it follow type correctness (no unsigned counter below zero),
`TokensConserved`, `InFlightBounded` (the assertion in `makeCommandBufferImpl`) and
`NoDoubleRelease` (the one in `releaseToken`).

Three more invariants stand on `IInv`.  `CompletionInv` (`SpecCompletionSound`) counts:
submit indices are given out once, the two counters are the numbers of buffers
committed and recorded, and a handler starts after the GPU.  So there are at most as
many completions as finished buffers, and a position at or below the completions is
one that the GPU has passed, whichever handlers ran.  A drain that succeeds holds
all the tokens, so that by `TokensConserved` no handler is still to record one.
`RetentionInv` (`SpecRetainedUntilCompleted`) is `PinsSound`, that each object is pinned by
one buffer, so that a release takes nothing from another, and `ReadsHeld`, that what a
buffer may still read is alive and pinned by none that releases it earlier.  For a
dispatch's object that is the current lease's buffer, which is committed after the
dispatch and so, by `CompletionInv`, finishes after it.  Objects that strayed are excepted
(section 5).
`SpecAliveWhileOutstanding`, the converse, has the hypothesis `RingFallback = FALSE`,
because of the first item of section 5's second list.  `SpecPoolSafety` is the
refinement: under `IInv` every step is a step of `CommandBufferPool` or a stutter
(most steps of a handler and of an allocation are stutters; the pool's drain is the
step that takes the last token).

**FramePacingProofs.**  `PacingAssumption`.  `SlotsBalanced` accounts for the
permits: those that are free, held or still to be signalled, and those that commits of
spent command buffers have lost, are at least `RingCount` for every workload, and no more
for the paced ones; the second
half needs `PacedControl`, which ties the slot, the open buffer and the debt of
a clear together.  That no ring buffer is overwritten is an argument about distance:
`PacedReads` says that a buffer in the queue which reads generation `g` is followed by
at least as many signals to come, permits lost included, as there were generations
closed since.  A call that writes holds a slot, so fewer than `RingCount` signals are to come,
and `g` is less than a turn of the ring ago.  `PacedInv` is the conjunction.

**BufferRenameProofs.**  `RenameAssumption`.  `TypeInv` adds to the types
that submitted buffers are those in the queue, those whose handlers have not run, and
those counted.  `RenameInv` has the two properties and what makes them inductive:
two objects have two Metal buffers (`Apart`), a draw refers to none that is another
object's by now (`Owned`), what the batch refers to is kept by its object or by a
donation (`Kept`), and `Stamped`: a draw that refers to the present Metal buffer of
an object sits in a command buffer whose index that object's stamp has reached.  A
write in place happens only when the stamp is counted, hence executed, and overwrites
no draw's bytes.  Like `DrawTimeContents`, `Stamped` is about orderly applications: between
their bindings and commits no other buffer commits, and no drain or allocation fails.
The rest holds for all.

**CoverageStoreProofs.**  `MarkEntered` is inductive with `PathsSound`, which says
what each place on the fast and slow path already knows.  `NeverDowngraded` and the
refinement of `CoverageTable` follow; the linearization point of a fast mark is its
last load, where `PathsSound` gives that applying it changes nothing.

**RuntimeProofs.**  The context registry and memory pressure.

`RegistrySound` is a conjunction.  `WalkedContextAlive` rests on the mutex (`RegistryTypeOK` has
that a walker holds it) and on the registry being exactly the live contexts.
`PostMortemAvailable` needs `InventoryKept`: an empty registry that was not always
empty has left an inventory.  `CurrentAlive` holds as long as nothing is `disturbed`.

`WatermarksAssumption`: the thresholds are ordered.  The hysteresis machine is shown to
settle and to be monotone for all thresholds, ratios and levels, not only the reachable
ones, and `HysteresisSound` follows.  `ReactionJustified` is `OnePassPerEvent`, which is
inductive with the types, and `OutOfMemoryJustified`, which needs `CriticalSeen`: every
place a critical level can be on its way (peak, handler, sample of a context) implies
that one was announced.

**ClearProofs.**  The default framebuffer: `ClearAssumption`, and two hypotheses of the theorems:
`OneTarget` (no application draws into framebuffer objects, reads converted pixels or
mixes the shadow and the GPU: the exceptions of section 5) and `InsideNonempty`.  The
proof first shows what each helper does to the *view* of a frame graph, a record: that
is what the target holds once batch and debt are encoded, and ending the pass,
flushing the batch, opening a pass and clearing leave it alone.  `Sound` says that
something is owed only to a batch and never while an encoder is open; this is why
`flushPendingClear` never nests and why a hand-over overwrites no debt.  `IInv` adds
that `drawn` agrees with the composed target and with the filled shadow wherever
`colorIn` says so, and that `Places` relates that to the flags of the code.
`SpecNoNestedEncoder`, `SpecNothingLost` and the refinement `SpecImage` follow.

The clear registry: `FboAssumption`; `SpecFboTypeOK` has no other hypothesis,
`SpecDeferralInvisible` has two, `DisjointCoverages` (no two coverages that are cleared
overlap) and `NoStencilImage`, the limits of section 5.  First it is shown what filtering
a registry keeps (`KeptMeaning`, which counts) and that without overlaps a plane is left
by the one entry that covers it (`ExecutedMeaning`), so that executing in two parts is
executing all.  `ContentsKept` is not inductive: a draw that continues the open pass does
not look at the registry.  `NoneOwed`, that nothing pending covers an attachment of the
open pass or what has just been read, is what `deferFboClear`'s closing of the pass and
the executions before a pass keep up; `UsesCurrent` follows from the two.

**ProgramLifetimeProofs.**  `LifetimeAssumption`.  `IInv` has the types (one of which
is that no name is a shader and a program), exact counters, and references to
existing objects only; `DeletionsFinish` adds, under `~LosesStages`, that a program
keeps the stages it is staged for (`StagesKept`), without which `NothingLeaks` is not
inductive.

**TextureProofs.**  Residency: `ResidencyAssumption`, and `Extras = {}` for
`ContentNeverStale` and `EvictionRecoverable`: nothing of section 5 happens, and in
particular no GPU write on its way lands over an upload.  `MetalCurrent` is not inductive: that a
rebuild uploads nothing old rests on `StaleExcluded`, that a shadow which is behind
belongs to a texture that `HardExcluded` keeps from eviction, and on what is in flight
being pending.  `TypeCorrect` has no such hypothesis.

Uploads: `UploadAssumption`.  `WatermarkCatchesUp` follows from `NumberedInv`: every number
given out is in the queue, waits for its handler, or is at most the watermark.
`UploadsOrdered` follows from `OrderInv`.  Uploads are numbered, so it is enough that the
contents of one texture *ascend* along all that the GPU has yet to do (`AscendingIn`)
and that every read has its upload before it, in memory or in a blit (`Sourced`).  An
upload through the open buffer is the last command and keeps that.  One through a
buffer of its own comes before the open one, and one by the CPU before everything;
`NotedOpen` and `NotedQueue` say that the read set and the sequence numbers name every
texture that is still to be sampled, `SampledAgain` that a blit still on
its way to a texture that was drawn with since has that draw behind it, and `Slotted`
that without rotation an open buffer has a slot, so that a layered clear folds too.  So the hazard test that fails proves
that nothing of the texture is left (`NothingLeft`).  The invariant is conditional on
`Tracked`, like the property: draws are noted, commits fold the read set, waits end and
ordered uploads find memory.

Only model-checked: liveness (`CallsReturn`, the fairness of `PoolSpec`, `SlotsReturn`,
`EventAnswered`), which is out of the prover's reach.  Every other property of a run is
also a theorem; where that has a hypothesis, it is the one the run's instance or the
property's condition on the workload satisfies.

## 7. What is not modelled in the modelled parts

* Labels, reasons, byte accounting and profiling counters of submissions.
* Ring growth.
* Masked clears, the drawable of the window, the shadows of depth and stencil, a shadow
  whose size differs from the drawable's, and copies and blits out of the default
  framebuffer, which read it the way glReadPixels does.
* What a program's executables contain: splicing, synthesised programs, failed relinks.
* The tokens behind the pending-producer bits, the order and the budget of evictions,
  and derived caches, whose eviction loses nothing.
* Writes through map pointers, which the code documents as in place, sparse pages and
  GPU-written buffers beyond that they are written in place.
* Uploads into private storage, which wait for their own blit.
* Multisampled attachments, further colour attachments and mip levels of the clear
  registry (planes of the same kind), and discarding entries on CPU writes.
* Command buffers that fail.  A completion handler only logs the error; `commitAndWait`
  returns the final status, and its callers act on it as on a wait that gave up, so that
  in the models a call's failure is a wait that gives up.
* Encoders on a command buffer that is committed already, which Metal rejects: in the
  models nothing is recorded.
* Query results and fence syncs: every result comes from a call that runs the work to
  its end, so that nothing interleaves.
* Translation of shaders, emulation of stages, conversion of formats: sequential
  computations on data, more than half of the code, about which a model of control
  says nothing.
* What diagnostics write.  They walk objects that the owning thread changes without
  the registry's mutex, and copy a renderer string written without it: data races, in
  which an interleaving of whole steps would say nothing.

## 8. Plan

Done first, because everything else rests on it: `CommandSubmission`, then what hangs
on the current command buffer (`FramePacing`, `DefaultClear` with the shadow,
`BufferRename`, `TextureUploadOrder`, `FboClearRegistry`), then the process-wide
parts, then objects (`ProgramLifetime`) and residency (`TextureResidency`).

Next modules, in order:

1. A composition of `CommandSubmission` and `BufferRename` over the same submit index,
   which `BufferRename` now abstracts to a count.
2. The order of candidates of an eviction pass and its budget, on top of
   `MemoryPressure` and `TextureResidency`.
3. Sparse pages: commitment and release against uploads and evictions.
4. `IndexExpansion` as an operator against a reference definition.

Next proofs:

1. `FboClearRegistry` for coverages that overlap as long as they are cleared in an order
   in which coalescing and folding do no harm.
2. A composition of `CommandSubmission` and `BufferRename`, in which `CompletionSound`
   discharges what `BufferRename` assumes of the counters.
