------------------------- MODULE TextureUploadOrder -------------------------
(***************************************************************************)
(* Uploads into textures that draws may still sample (MetalFrameGraph.mm,  *)
(* "ordered in-CB texture uploads").  glTexSubImage writes at once, from   *)
(* the CPU, unless the frame graph thinks that a draw it has encoded may   *)
(* still read the texture; then the bytes travel through a blit, either in *)
(* the open command buffer (if that one samples the texture) or in one of  *)
(* its own.                                                                *)
(*                                                                         *)
(* What may still be read is decided from the set of textures the open     *)
(* buffer samples, which is folded into a sequence number per texture when *)
(* the buffer is committed, and from the largest number whose completion   *)
(* handler has run.                                                        *)
(*                                                                         *)
(* The GPU executes committed buffers in their order and each one at once; *)
(* the handlers run in any order.  An upload replaces a texture whole, and *)
(* its contents are the number of the upload.                              *)
(*                                                                         *)
(* Only draws that sample are modelled: what draws and image stores write  *)
(* into a texture is the matter of TextureResidency.  A standalone drain   *)
(* that gives up and leaves its committed buffer current (FramePacing) is  *)
(* left out, and so is a new command buffer at the address of one that was *)
(* dropped, which would inherit its read set.                              *)
(***************************************************************************)
EXTENDS Naturals, Sequences, FiniteSets, FiniteSetsExt

CONSTANTS
    Textures,
    MaxUploads,     \* bound of the model: uploads in a run
    MaxCommits,     \* bound of the model: commits with a sequence number
    MaxPending,     \* bound of the model: buffers the GPU has not finished
    MaxOpen,        \* bound of the model: commands in the open buffer
    Workloads       \* what applications and the environment do, see Features

\* "rotate": a draw commits the open buffer for resource pressure;
\* "layeredClear": a framebuffer clear drains it asynchronously;
\* "wait": a read-back drains it and waits;
\* "giveUp": such a wait may time out;
\* "unstaged": an upload may find no memory or no command buffer for its blit;
\* "reupload": an upload follows another without a draw in between;
\* "descriptor": draws take the lean descriptor path (APPGL_PARALLEL_ENCODE).
Features ==
    {"rotate", "layeredClear", "wait", "giveUp", "unstaged", "reupload", "descriptor"}

ASSUME UploadAssumption ==
    /\ {MaxUploads, MaxCommits, MaxPending, MaxOpen} \subseteq Nat
    /\ Workloads \subseteq SUBSET Features

VARIABLES
    memory,     \* memory[t]: the contents of t, once the GPU idles
    queue,      \* committed command buffers the GPU has not finished
    handlers,   \* sequence numbers of finished ones whose handler must run
    open,       \* currentCommandBuffer: its commands, <<>> if there is none
    slot,       \* ringSlotAcquired
    readSet,    \* cbTextureReadSet
    owned,      \* cbTextureReadSetOwner is the open buffer
    lastRead,   \* textureLastReadCommitSeq
    commitSeq,  \* commitSeqCounter
    completed,  \* completedCommitSeq
    uploads,    \* how many uploads there have been
    latest,     \* latest[t]: what the application has last put into t
    drawn,      \* textures a draw has sampled since their last upload
    workload    \* what this application and its environment do

uploadVars == <<memory, queue, handlers, open, slot, readSet, owned, lastRead,
                commitSeq, completed, uploads, latest, drawn, workload>>
gpu == <<memory, queue, handlers>>
marks == <<readSet, owned, lastRead, commitSeq, completed>>
history == <<uploads, latest, drawn, workload>>

IsOpen == open # <<>>

Read(t, c) == [op |-> "read", tex |-> t, contents |-> c]
Blit(t, c) == [op |-> "blit", tex |-> t, contents |-> c]

\* The contents of t after the commands, when it holds c before them.
After(commands, t, c) ==
    LET blits == {i \in 1..Len(commands) :
                    commands[i].op = "blit" /\ commands[i].tex = t}
    IN  IF blits = {} THEN c ELSE commands[Max(blits)].contents

-----------------------------------------------------------------------------
(* The hazard test.                                                        *)

\* A draw in the open buffer samples t.
OpenHazard(t) == IsOpen /\ owned /\ t \in readSet

\* A committed buffer that samples t may be running.
PriorHazard(t) == lastRead[t] > completed

\* currentCommandBufferMayReadTexture.
MayRead(t) == OpenHazard(t) \/ PriorHazard(t)

\* foldTextureReadSetAtCommit.
Fold(set, seq) ==
    /\ lastRead' = [t \in Textures |-> IF t \in set THEN seq ELSE lastRead[t]]
    /\ readSet' = {}
    /\ owned' = (owned /\ set = {})

\* Mutant: the set is folded under the number of the next commit.
CommitWithFrameSignal_FoldsNext ==
    /\ commitSeq < MaxCommits
    /\ Len(queue) < MaxPending
    /\ commitSeq' = commitSeq + 1
    /\ Fold(readSet, commitSeq + 2)
    /\ queue' = Append(queue, [seq |-> commitSeq + 1, commands |-> open])
    /\ UNCHANGED completed

\* commitWithFrameSignal.
CommitWithFrameSignal ==
    /\ commitSeq < MaxCommits
    /\ Len(queue) < MaxPending
    /\ commitSeq' = commitSeq + 1
    /\ Fold(readSet, commitSeq + 1)
    /\ queue' = Append(queue, [seq |-> commitSeq + 1, commands |-> open])
    /\ UNCHANGED completed

\* A commit outside of the frame's bookkeeping.
PlainCommit(commands) ==
    /\ Len(queue) < MaxPending
    /\ queue' = Append(queue, [seq |-> 0, commands |-> commands])

\* noteTextureReadsForDraw, on a buffer that may be new.
Note(t) ==
    /\ readSet' = IF owned THEN readSet \cup {t} ELSE {t}
    /\ owned' = TRUE

-----------------------------------------------------------------------------
UploadInit ==
    /\ memory = [t \in Textures |-> 0]
    /\ queue = <<>>
    /\ handlers = {}
    /\ open = <<>>
    /\ slot = FALSE
    /\ readSet = {}
    /\ owned = FALSE
    /\ lastRead = [t \in Textures |-> 0]
    /\ commitSeq = 0
    /\ completed = 0
    /\ uploads = 0
    /\ latest = [t \in Textures |-> 0]
    /\ drawn = Textures
    /\ workload \in Workloads

\* A draw samples t.  Only encodeTranslatedDrawSerial notes what it samples.
DrawSampling(t, path) ==
    /\ path = "serial" \/ path \in workload
    /\ Len(open) < MaxOpen
    /\ open' = Append(open, Read(t, latest[t]))
    /\ slot' = TRUE
    /\ IF path = "serial" THEN Note(t) ELSE UNCHANGED <<readSet, owned>>
    /\ drawn' = drawn \cup {t}
    /\ UNCHANGED <<memory, queue, handlers, lastRead, commitSeq, completed,
                   uploads, latest, workload>>

\* A draw that first commits the open buffer, for resource pressure.  The slot
\* it had acquired goes with that one; the draw itself runs without a slot.
DrawRotated(t) ==
    /\ "rotate" \in workload
    /\ IsOpen
    /\ commitSeq < MaxCommits
    /\ Len(queue) < MaxPending
    /\ commitSeq' = commitSeq + 1
    /\ queue' = Append(queue, [seq |-> commitSeq + 1, commands |-> open])
    /\ lastRead' = [u \in Textures |-> IF u \in readSet THEN commitSeq + 1
                                                        ELSE lastRead[u]]
    /\ readSet' = {t}
    /\ owned' = TRUE
    /\ open' = <<Read(t, latest[t])>>
    /\ slot' = FALSE
    /\ drawn' = drawn \cup {t}
    /\ UNCHANGED <<memory, handlers, completed, uploads, latest, workload>>

\* The application puts c into t.
Put(t, c) ==
    /\ uploads < MaxUploads
    /\ t \in drawn \/ "reupload" \in workload
    /\ uploads' = c
    /\ latest' = [latest EXCEPT ![t] = c]
    /\ drawn' = drawn \ {t}

\* glTexSubImage: replaceMetalTexture and encodeOrderedTextureUpload.
Upload(t) ==
    /\ LET c == uploads + 1
       IN  /\ Put(t, c)
           /\ CASE OpenHazard(t) ->
                        /\ Len(open) < MaxOpen
                        /\ open' = Append(open, Blit(t, c))
                        /\ UNCHANGED <<memory, queue>>
                [] MayRead(t) /\ ~OpenHazard(t) ->
                        /\ PlainCommit(<<Blit(t, c)>>)
                        /\ UNCHANGED <<memory, open>>
                [] ~MayRead(t) ->
                        /\ memory' = [memory EXCEPT ![t] = c]
                        /\ UNCHANGED <<queue, open>>
    /\ UNCHANGED <<handlers, slot, marks, workload>>

\* The upload is to be ordered, but there is no memory for the bytes or no command
\* buffer: encodeOrderedTextureUpload returns false, and replaceMetalTexture takes
\* the immediate route after all.
UploadUnstaged(t) ==
    /\ "unstaged" \in workload
    /\ MayRead(t)
    /\ Put(t, uploads + 1)
    /\ memory' = [memory EXCEPT ![t] = uploads + 1]
    /\ UNCHANGED <<queue, open, handlers, slot, marks, workload>>

\* Present, flush, finish, glClear, resize: a commit with the frame's signal.
CommitFrame ==
    /\ IsOpen
    /\ CommitWithFrameSignal
    /\ open' = <<>>
    /\ slot' = FALSE
    /\ UNCHANGED <<memory, handlers, history>>

\* Mutant: it always commits plainly.
LayeredClear_Plain ==
    /\ "layeredClear" \in workload
    /\ IsOpen
    /\ PlainCommit(open)
    /\ owned' = FALSE
    /\ UNCHANGED <<readSet, lastRead, commitSeq, completed>>
    /\ open' = <<>>
    /\ slot' = FALSE
    /\ UNCHANGED <<memory, handlers, history>>

\* The asynchronous drain of a layered clear: with a slot it is a commit like
\* the others, without one it is a plain commit.
LayeredClear ==
    /\ "layeredClear" \in workload
    /\ IsOpen
    /\ IF slot
       THEN CommitWithFrameSignal
       ELSE /\ PlainCommit(open)
            /\ owned' = FALSE
            /\ UNCHANGED <<readSet, lastRead, commitSeq, completed>>
    /\ open' = <<>>
    /\ slot' = FALSE
    /\ UNCHANGED <<memory, handlers, history>>

\* A read-back, or a layered clear that is not asynchronous, commits plainly and
\* waits: by then the GPU has executed every buffer, the handlers of the others may
\* still be to run.
Wait ==
    /\ "wait" \in workload
    /\ IsOpen
    /\ queue = <<>>
    /\ memory' = [t \in Textures |-> After(open, t, memory[t])]
    /\ open' = <<>>
    /\ slot' = FALSE
    /\ owned' = FALSE
    /\ UNCHANGED <<queue, handlers, readSet, lastRead, commitSeq, completed,
                   history>>

\* The wait times out: the buffer is committed and dropped, its read set is not
\* folded, and the GPU has still to execute it.  The read-back keeps the slot, the
\* layered clear gives it back.
WaitGivesUp ==
    /\ "giveUp" \in workload
    /\ IsOpen
    /\ PlainCommit(open)
    /\ open' = <<>>
    /\ slot' \in {slot, FALSE}
    /\ owned' = FALSE
    /\ UNCHANGED <<memory, handlers, readSet, lastRead, commitSeq, completed,
                   history>>

\* The GPU finishes the oldest command buffer.
GpuExecute ==
    /\ queue # <<>>
    /\ memory' = [t \in Textures |-> After(Head(queue).commands, t, memory[t])]
    /\ handlers' = handlers \cup ({Head(queue).seq} \ {0})
    /\ queue' = Tail(queue)
    /\ UNCHANGED <<open, slot, marks, history>>

\* Mutant: the handler stores its number without a comparison.
Complete_Last(seq) ==
    /\ seq \in handlers
    /\ handlers' = handlers \ {seq}
    /\ completed' = seq
    /\ UNCHANGED <<memory, queue, open, slot, readSet, owned, lastRead,
                   commitSeq, history>>

\* The completion handler of a commit raises the watermark, never lowers it.
Complete(seq) ==
    /\ seq \in handlers
    /\ handlers' = handlers \ {seq}
    /\ completed' = IF completed < seq THEN seq ELSE completed
    /\ UNCHANGED <<memory, queue, open, slot, readSet, owned, lastRead,
                   commitSeq, history>>

-----------------------------------------------------------------------------
UploadNext ==
    \/ \E t \in Textures, path \in {"serial", "descriptor"} : DrawSampling(t, path)
    \/ \E t \in Textures : DrawRotated(t) \/ Upload(t) \/ UploadUnstaged(t)
    \/ CommitFrame \/ LayeredClear \/ Wait \/ WaitGivesUp
    \/ GpuExecute
    \/ \E seq \in 1..MaxCommits : Complete(seq)

UploadSpec == UploadInit /\ [][UploadNext]_uploadVars

-----------------------------------------------------------------------------
Command == [op : {"read", "blit"}, tex : Textures, contents : 0..MaxUploads]

\* Every variable has its type.
UploadTypeOK ==
    /\ memory \in [Textures -> 0..MaxUploads]
    /\ queue \in Seq([seq : 0..MaxCommits, commands : Seq(Command)])
    /\ handlers \subseteq 1..MaxCommits
    /\ open \in Seq(Command)
    /\ slot \in BOOLEAN
    /\ readSet \subseteq Textures
    /\ owned \in BOOLEAN
    /\ lastRead \in [Textures -> 0..commitSeq]
    /\ commitSeq \in 0..MaxCommits
    /\ completed \in 0..commitSeq
    /\ uploads \in 0..MaxUploads
    /\ latest \in [Textures -> 0..uploads]
    /\ drawn \subseteq Textures
    /\ workload \in Workloads

\* What the GPU has yet to do, in its order: the committed buffers, then the
\* open one.  A position is a buffer and a place in it.
Buffer(k) == IF k <= Len(queue) THEN queue[k].commands ELSE open

Pending == UNION {{k} \X (1..Len(Buffer(k))) : k \in 1..Len(queue) + 1}
End == <<Len(queue) + 2, 1>>

At(p) == Buffer(p[1])[p[2]]

Precedes(p, q) == p[1] < q[1] \/ (p[1] = q[1] /\ p[2] < q[2])

BlitsBefore(p, t) ==
    {q \in Pending : Precedes(q, p) /\ At(q).op = "blit" /\ At(q).tex = t}

\* What t will hold when the GPU gets to p: what the last blit before p puts there.
Found(p, t) ==
    LET blits == BlitsBefore(p, t)
    IN  IF blits = {} THEN memory[t]
        ELSE At(CHOOSE q \in blits : \A r \in blits : ~Precedes(q, r)).contents

\* Draws are noted, every commit folds the read set, every wait ends in time, no
\* ordered upload fails, and no texture is uploaded twice without a draw in between.
Tracked ==
    /\ workload \cap {"reupload", "descriptor", "giveUp", "unstaged"} = {}
    /\ ~ ({"rotate", "layeredClear"} \subseteq workload)

\* An upload "must NOT be visible to draws encoded BEFORE it", and must be to
\* those after it: every draw samples what the texture held when it was issued.
SampledAtDrawTime ==
    \A p \in Pending : At(p).op = "read" => Found(p, At(p).tex) = At(p).contents

\* Once the GPU has done all it has to do, a texture holds the last upload.
LastUploadStays == \A t \in Textures : Found(End, t) = latest[t]

\* Uploads and draws take effect in the order of the GL calls, whichever of the
\* routes an upload takes.
UploadsOrdered == Tracked => SampledAtDrawTime /\ LastUploadStays

\* Once every handler has run, the watermark is the last number given out, so
\* that no texture takes the ordered route for ever.
WatermarkCatchesUp ==
    handlers = {} /\ (\A i \in 1..Len(queue) : queue[i].seq = 0)
        => completed = commitSeq

=============================================================================
