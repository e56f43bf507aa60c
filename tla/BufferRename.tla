---------------------------- MODULE BufferRename ----------------------------
(***************************************************************************)
(* Writes into buffer objects that draws may still read                    *)
(* (GLContext.mm, classifyBufferWriteLiveness and syncMetalFromShadow).    *)
(*                                                                         *)
(* A buffer object has a CPU shadow and a Metal buffer.  A draw binds the  *)
(* Metal buffer itself, and stamps the object with the index the open      *)
(* command buffer is expected to get in the queue.  A write, which goes to *)
(* the shadow first, compares the stamp with the number of command buffers *)
(* that have completed: if a draw may still read the Metal buffer, the     *)
(* object gets a new one (the write renames it) and the command buffers    *)
(* keep the old one alive.  Draws that are deferred to a batch hold the    *)
(* Metal buffer without a retain, so that a renaming write donates its own *)
(* to the batch.                                                           *)
(*                                                                         *)
(* Contents are the number of the write that made them.  An allocation is  *)
(* reused as soon as nobody holds it.  A drain that times out and a Metal  *)
(* buffer that cannot be allocated leave the write in place, under its     *)
(* readers: the code goes on in both cases.                                *)
(***************************************************************************)
EXTENDS Naturals, Sequences, FiniteSets

CONSTANTS
    Buffers,        \* buffer objects
    Allocations,    \* what newBufferWithLength may return
    First,          \* First[b]: the allocation b starts with
    MaxWrites,      \* bound of the model: writes in a run
    MaxSubmits,     \* bound of the model: command buffers committed in a run
    Workloads       \* the applications considered, see below

Kinds == {"plain", "texbuf", "pinned"}

\* An application has buffers of certain kinds: "plain", "texbuf"
\* (textureBufferSource) and "pinned" (mapped, sparse or written by the GPU);
\* it brings about certain commits: "separate", of a command buffer of its own
\* while draws wait in the open one or in the batch, and "rotate", of the open
\* one by a draw after its binding; and it runs on a machine where a "drain" may
\* time out, or where there may be no memory for the "allocation" of a buffer.
Applications ==
    [kind : [Buffers -> Kinds],
     commits : SUBSET {"separate", "rotate"},
     failures : SUBSET {"drain", "allocation"}]

ASSUME RenameAssumption ==
    /\ First \in [Buffers -> Allocations]
    /\ \A b, c \in Buffers : First[b] = First[c] => b = c
    /\ {MaxWrites, MaxSubmits} \subseteq Nat
    /\ Workloads \subseteq Applications

VARIABLES
    shadow,     \* shadow[b]: shadowBytes
    metal,      \* metal[b]: metalBuffer
    stamp,      \* stamp[b]: liveBindSubmitIndex
    bytes,      \* bytes[a]: what is in allocation a
    batch,      \* deferred draws, each a reference
    keepalives, \* deferredBatchKeepalives
    isOpen,     \* there is a current command buffer
    open,       \* the references of its draws
    queue,      \* committed, unfinished command buffers: their references
    handlers,   \* finished command buffers whose handler must run
    submitted,  \* submittedCommandBuffers
    completed,  \* completedCommandBuffers
    writes,     \* how many writes there have been
    workload    \* this application

vars == <<shadow, metal, stamp, bytes, batch, keepalives, isOpen, open, queue,
          handlers, submitted, completed, writes, workload>>
objects == <<shadow, metal, stamp, bytes, writes>>
deferred == <<batch, keepalives>>
current == <<isOpen, open>>
submission == <<queue, handlers, submitted, completed>>

\* A draw's reference to b: where it reads, and what it should read there.
Reference(b) == [buffer |-> b, alloc |-> metal[b], contents |-> shadow[b]]

InQueue == UNION {queue[i] : i \in 1..Len(queue)}

\* Command buffers retain what they bind, objects and keepalives own one.
Held ==
    {metal[b] : b \in Buffers} \cup keepalives
        \cup {r.alloc : r \in open \cup InQueue}
Free == Allocations \ Held

-----------------------------------------------------------------------------
\* classifyBufferWriteLiveness: a reader may not have completed.
Live(b) == stamp[b] # 0 /\ stamp[b] > completed

\* Mutant: the open command buffer is counted twice.
OpenIndex_Twice == submitted + 2

\* Mutant: the stamp is the index of the last commit.
OpenIndex_Late == submitted

\* openCommandBufferSubmitIndex.
OpenIndex == submitted + 1

\* flushParallelTranslatedDrawBatch: the batch is encoded into the current
\* command buffer, and what it was donated is released.
FlushBatch ==
    /\ batch' = {}
    /\ isOpen' = (isOpen \/ batch # {})
    /\ open' = open \cup batch
    /\ keepalives' = {}

\* A command buffer with these references is committed.
Submit(references) ==
    /\ submitted < MaxSubmits
    /\ queue' = Append(queue, references)
    /\ submitted' = submitted + 1
    /\ UNCHANGED <<handlers, completed>>

-----------------------------------------------------------------------------
Init ==
    /\ shadow = [b \in Buffers |-> 0]
    /\ metal = First
    /\ stamp = [b \in Buffers |-> 0]
    /\ bytes = [a \in Allocations |-> 0]
    /\ batch = {}
    /\ keepalives = {}
    /\ isOpen = FALSE
    /\ open = {}
    /\ queue = <<>>
    /\ handlers = {}
    /\ submitted = 0
    /\ completed = 0
    /\ writes = 0
    /\ workload \in Workloads

\* A draw on the serial path binds b, which stamps it, and is then encoded
\* after the batch.
DrawSerial(b) ==
    /\ stamp' = [stamp EXCEPT ![b] = OpenIndex]
    /\ batch' = {}
    /\ keepalives' = {}
    /\ isOpen' = TRUE
    /\ open' = open \cup batch \cup {Reference(b)}
    /\ UNCHANGED <<shadow, metal, bytes, writes, submission, workload>>

\* The same, but after the binding the draw commits the open command buffer
\* for resource pressure and goes into a new one.
DrawRotated(b) ==
    /\ isOpen
    /\ "rotate" \in workload.commits
    /\ stamp' = [stamp EXCEPT ![b] = OpenIndex]
    /\ batch' = {}
    /\ keepalives' = {}
    /\ Submit(open \cup batch)
    /\ open' = {Reference(b)}
    /\ UNCHANGED <<shadow, metal, bytes, writes, isOpen, workload>>

\* A draw that is deferred binds b, too.
DrawDeferred(b) ==
    /\ stamp' = [stamp EXCEPT ![b] = OpenIndex]
    /\ batch' = batch \cup {Reference(b)}
    /\ UNCHANGED <<shadow, metal, bytes, writes, keepalives, current, submission, workload>>

\* Texture uploads, barriers and a full batch flush it.
Boundary ==
    /\ batch # {}
    /\ FlushBatch
    /\ UNCHANGED <<objects, submission, workload>>

\* commitCurrentAsync.
Commit ==
    /\ isOpen \/ batch # {}
    /\ Submit(open \cup batch)
    /\ batch' = {}
    /\ keepalives' = {}
    /\ isOpen' = FALSE
    /\ open' = {}
    /\ UNCHANGED <<objects, workload>>

\* A command buffer of its own (an upload, a blit, a fence) is committed.
Separate ==
    /\ (~isOpen /\ batch = {}) \/ "separate" \in workload.commits
    /\ Submit({})
    /\ UNCHANGED <<objects, deferred, current, workload>>

-----------------------------------------------------------------------------
(* Writing (glBufferSubData and its kin): flushEncodeBoundaryForBufferWrite,*)
(* then the shadow, then syncMetalFromShadow.                              *)

\* The write changes the shadow of b.
ToShadow(b) ==
    /\ writes < MaxWrites
    /\ writes' = writes + 1
    /\ shadow' = [shadow EXCEPT ![b] = writes + 1]

InPlace(b) ==
    /\ bytes' = [bytes EXCEPT ![metal[b]] = writes + 1]
    /\ UNCHANGED metal

\* Nobody reads the Metal buffer.
WriteUnread(b) ==
    /\ ~Live(b)
    /\ ToShadow(b)
    /\ InPlace(b)
    /\ UNCHANGED <<stamp, deferred, current, submission, workload>>

\* Mutant: the new Metal buffer is filled before the shadow is written.
WriteRenaming_SeedsEarly(b) ==
    /\ Live(b)
    /\ workload.kind[b] = "plain"
    /\ ToShadow(b)
    /\ \E a \in Free :
        /\ metal' = [metal EXCEPT ![b] = a]
        /\ bytes' = [bytes EXCEPT ![a] = shadow[b]]
    /\ keepalives' = IF batch = {} THEN keepalives ELSE keepalives \cup {metal[b]}
    /\ stamp' = [stamp EXCEPT ![b] = 0]
    /\ UNCHANGED <<batch, current, submission, workload>>

\* The object gets a new Metal buffer.  The batch is not flushed: the old one
\* is donated to it, or released if there is none.
WriteRenaming(b) ==
    /\ Live(b)
    /\ workload.kind[b] = "plain"
    /\ ToShadow(b)
    /\ \E a \in Free :
        /\ metal' = [metal EXCEPT ![b] = a]
        /\ bytes' = [bytes EXCEPT ![a] = writes + 1]
    /\ keepalives' = IF batch = {} THEN keepalives ELSE keepalives \cup {metal[b]}
    /\ stamp' = [stamp EXCEPT ![b] = 0]
    /\ UNCHANGED <<batch, current, submission, workload>>

\* A texture buffer's Metal buffer cannot be replaced: everything is drained
\* first, and by then every handler has run.
WriteAfterFinish(b) ==
    /\ Live(b)
    /\ workload.kind[b] = "texbuf"
    /\ ToShadow(b)
    /\ InPlace(b)
    /\ batch' = {}
    /\ keepalives' = {}
    /\ isOpen' = FALSE
    /\ open' = {}
    /\ queue' = <<>>
    /\ handlers' = {}
    /\ submitted' = IF isOpen \/ batch # {} THEN submitted + 1 ELSE submitted
    /\ submitted' <= MaxSubmits
    /\ completed' = submitted'
    /\ stamp' = [stamp EXCEPT ![b] = 0]
    /\ UNCHANGED workload

\* The drain times out: everything has been committed, its result is ignored,
\* and the write goes ahead.  What the GPU has finished by then may have
\* happened before this step.
WriteAfterTimeout(b) ==
    /\ Live(b)
    /\ workload.kind[b] = "texbuf"
    /\ "drain" \in workload.failures
    /\ ToShadow(b)
    /\ InPlace(b)
    /\ batch' = {}
    /\ keepalives' = {}
    /\ isOpen' = FALSE
    /\ open' = {}
    /\ IF isOpen \/ batch # {} THEN Submit(open \cup batch) ELSE UNCHANGED submission
    /\ stamp' = [stamp EXCEPT ![b] = 0]
    /\ UNCHANGED workload

\* There is no memory for a new Metal buffer: the old one is written in place,
\* although the batch was not flushed since a rename was expected.
WriteUnrenamed(b) ==
    /\ Live(b)
    /\ workload.kind[b] = "plain"
    /\ "allocation" \in workload.failures
    /\ ToShadow(b)
    /\ InPlace(b)
    /\ UNCHANGED <<stamp, deferred, current, submission, workload>>

\* Any other buffer that cannot be renamed is written in place once the batch
\* is encoded.
WritePinned(b) ==
    /\ Live(b)
    /\ workload.kind[b] = "pinned"
    /\ ToShadow(b)
    /\ InPlace(b)
    /\ FlushBatch
    /\ UNCHANGED <<stamp, submission, workload>>

\* glBufferData flushes the batch and replaces the storage; the stamp stays.
\* Without memory for it the call only flushes the batch: that is a Boundary.
Respecify(b) ==
    /\ ToShadow(b)
    /\ FlushBatch
    /\ \E a \in Allocations \ ({metal[c] : c \in Buffers}
                                  \cup {r.alloc : r \in open \cup batch \cup InQueue}) :
        /\ metal' = [metal EXCEPT ![b] = a]
        /\ bytes' = [bytes EXCEPT ![a] = writes + 1]
    /\ UNCHANGED <<stamp, submission, workload>>

-----------------------------------------------------------------------------
\* The GPU finishes the oldest command buffer and drops its references.
GpuFinish ==
    /\ queue # <<>>
    /\ handlers' = handlers \cup {submitted - Len(queue) + 1}
    /\ queue' = Tail(queue)
    /\ UNCHANGED <<objects, deferred, current, submitted, completed, workload>>

\* A completion handler counts its command buffer.
RecordCompletion(i) ==
    /\ i \in handlers
    /\ handlers' = handlers \ {i}
    /\ completed' = completed + 1
    /\ UNCHANGED <<objects, deferred, current, queue, submitted, workload>>

Next ==
    \/ \E b \in Buffers :
        \/ DrawSerial(b) \/ DrawRotated(b) \/ DrawDeferred(b)
        \/ WriteUnread(b) \/ WriteRenaming(b) \/ WriteUnrenamed(b)
        \/ WriteAfterFinish(b) \/ WriteAfterTimeout(b)
        \/ WritePinned(b) \/ Respecify(b)
    \/ Boundary \/ Commit \/ Separate
    \/ GpuFinish
    \/ \E i \in 1..MaxSubmits : RecordCompletion(i)

Spec == Init /\ [][Next]_vars

-----------------------------------------------------------------------------
References == [buffer : Buffers, alloc : Allocations, contents : 0..MaxWrites]

\* Every variable has its type.
TypeOK ==
    /\ shadow \in [Buffers -> 0..writes]
    /\ metal \in [Buffers -> Allocations]
    /\ stamp \in [Buffers -> 0..(submitted + 1)]
    /\ bytes \in [Allocations -> 0..writes]
    /\ batch \subseteq References
    /\ keepalives \subseteq Allocations
    /\ isOpen \in BOOLEAN
    /\ open \subseteq References
    /\ queue \in Seq(SUBSET References)
    /\ handlers \subseteq 1..submitted
    /\ submitted \in 0..MaxSubmits
    /\ completed \in 0..submitted
    /\ writes \in 0..MaxWrites
    /\ workload \in Workloads

\* The draws find what they were issued with: what each is still to read from a
\* buffer that is not pinned.
DrawsFindContents ==
    \A r \in batch \cup open \cup InQueue :
        workload.kind[r.buffer] # "pinned" => bytes[r.alloc] = r.contents

\* An application that has no command buffer committed between the binding of a
\* buffer and the commit of its draw, where no drain times out and there is memory
\* for every new Metal buffer.
Orderly == workload.commits = {} /\ workload.failures = {}

\* "GL requires each draw to see draw-time contents": in an orderly application
\* they do.
DrawTimeContents == Orderly => DrawsFindContents

\* What a deferred draw refers to is neither freed nor handed out again, although
\* the draw does not retain it; and a donated buffer is kept no longer than the
\* batch it was donated to.
DonationsExact ==
    /\ \A r \in batch : r.alloc \in Held
    /\ keepalives # {} => batch # {}

\* A draw finds the bytes it was issued with, in a buffer that is still its own.
DrawsUndisturbed == DrawTimeContents /\ DonationsExact

\* The next draw finds in the Metal buffer what the application has written.
MetalMatchesShadow == \A b \in Buffers : bytes[metal[b]] = shadow[b]

=============================================================================
