------------------------- MODULE CommandSubmission -------------------------
(***************************************************************************)
(* The in-flight throttle of one GL context: MetalCommandSubmission and    *)
(* the MetalCommandBufferLease objects it hands out                        *)
(* (src/context/MetalCommandSubmission.h).  The GL thread creates, commits,*)
(* abandons and drains; the GPU finishes committed buffers in commit order *)
(* (one serial queue); each buffer's completion handler runs on a dispatch *)
(* thread of its own, so the handlers of finished buffers interleave with  *)
(* one another and with the GL thread.                                     *)
(*                                                                         *)
(* Command buffers are numbered in the order of their creation.  A retained*)
(* object is a member of Objects; byte counts, labels, reasons and the     *)
(* profiling counters are left out.                                        *)
(***************************************************************************)
EXTENDS Naturals, FiniteSets

CONSTANTS
    Bound,          \* inFlightBound, after "0 means 1"
    Reserve,        \* pressureReserve
    MaxBuffers,     \* bound of the model: command buffers created in a run
    Slots,          \* the lease variables of the GL thread
    Current,        \* the one named currentCommandBufferLease
    Objects,        \* the +1 objects handed to leases
    WaitsTimeOut,   \* whether a semaphore wait may reach its deadline
    NilBuffers,     \* whether the queue may return no command buffer
    RingFallback    \* whether a compute dispatch may overflow the ring

ASSUME SubmissionAssumption ==
    /\ Bound \in Nat \ {0}
    /\ Reserve \in Nat
    /\ MaxBuffers \in Nat
    /\ Current \in Slots
    /\ {WaitsTimeOut, NilBuffers, RingFallback} \subseteq BOOLEAN

VARIABLES
    \* SharedState
    sem,        \* inFlightSemaphore
    inFlight,   \* inFlightCount
    submitted,  \* submittedCommandBuffers
    completed,  \* completedCommandBuffers
    \* the leases, and what the shared pointers in them lead to
    lease,      \* lease[s]: the MetalCommandBufferLease in variable s
    released,   \* released[b]: the released_ flag of b's lease
    pinned,     \* pinned[b]: RetainedObjects::objects of b's lease
    alive,      \* objects whose +1 nobody has released
    \* the queue and the completion handlers
    allocated,  \* buffers created so far
    index,      \* index[b]: position of b in the queue, 0 before its commit
    gpuDone,    \* the GPU has finished positions 1 .. gpuDone
    handler,    \* handler[b]: how far b's completion handler has run
    uses,       \* uses[b]: objects recorded into b, whoever adopted them
    strayed,    \* history: those of uses[b] that were handed to a current
                \* lease whose own buffer was already on its way
    \* the GL thread
    at,         \* where it is
    slot,       \* the lease variable a creation will be assigned to
    awaited,    \* the buffer commitAndWait waits for
    acquired,   \* tokens a drain holds
    drained     \* the last drain returned true, nothing committed since

shared == <<sem, inFlight, submitted, completed>>
leases == <<lease, released, pinned, alive>>
queue  == <<allocated, index, gpuDone, handler, uses, strayed>>
thread == <<at, slot, awaited, acquired, drained>>
vars   == <<sem, inFlight, submitted, completed,
            lease, released, pinned, alive,
            allocated, index, gpuDone, handler, uses, strayed,
            at, slot, awaited, acquired, drained>>

Buffers == 1 .. MaxBuffers

\* The stages of a completion handler: recordCompleted, then the two halves
\* of releaseToken (the count, then the semaphore), then the objects.
Stages == {"none", "recorded", "uncounted", "signalled", "done"}

Leases == [id : 0 .. MaxBuffers,      \* released_ and retainedObjects_ of it
           buf : BOOLEAN,             \* commandBuffer_ != nil
           owns : BOOLEAN,            \* ownsToken_
           tokenMoved : BOOLEAN,      \* tokenReleaseTransferred_
           retainedMoved : BOOLEAN]   \* retainedReleaseTransferred_

NoLease == [id |-> 0, buf |-> FALSE, owns |-> FALSE,
            tokenMoved |-> FALSE, retainedMoved |-> FALSE]

NewLease(b) == [id |-> b, buf |-> TRUE, owns |-> TRUE,
                tokenMoved |-> FALSE, retainedMoved |-> FALSE]

\* Its buffer is committed, its token and objects belong to the handler.
SpentLease(b) == [id |-> b, buf |-> FALSE, owns |-> FALSE,
                  tokenMoved |-> TRUE, retainedMoved |-> TRUE]

SoftCap == IF Bound > Reserve THEN Bound - Reserve ELSE 1

GpuFinished(b) == index[b] # 0 /\ index[b] <= gpuDone

Open(s) == lease[s].buf /\ lease[s].owns

-----------------------------------------------------------------------------
Init ==
    /\ sem = Bound
    /\ inFlight = 0
    /\ submitted = 0
    /\ completed = 0
    /\ lease = [s \in Slots |-> NoLease]
    /\ released = [b \in Buffers |-> FALSE]
    /\ pinned = [b \in Buffers |-> {}]
    /\ alive = {}
    /\ allocated = 0
    /\ index = [b \in Buffers |-> 0]
    /\ gpuDone = 0
    /\ handler = [b \in Buffers |-> "none"]
    /\ uses = [b \in Buffers |-> {}]
    /\ strayed = [b \in Buffers |-> {}]
    /\ at = "idle"
    /\ slot = Current
    /\ awaited = 0
    /\ acquired = 0
    /\ drained = FALSE

-----------------------------------------------------------------------------
(* The GL thread.  It is the only waiter on the semaphore, so what it does *)
(* between two waits is one step, except where a handler could tell.       *)

\* abandon(), followed by moveFrom() of the lease n.
Replace(s, n) ==
    LET l == lease[s]
        givesToken == l.owns /\ ~l.tokenMoved
        dropsObjects == l.id # 0 /\ ~l.retainedMoved
    IN  /\ released' = IF givesToken
                       THEN [released EXCEPT ![l.id] = TRUE] ELSE released
        /\ inFlight' = IF givesToken THEN inFlight - 1 ELSE inFlight
        /\ sem' = IF givesToken THEN sem + 1 ELSE sem
        /\ alive' = IF dropsObjects THEN alive \ pinned[l.id] ELSE alive
        /\ pinned' = IF dropsObjects
                     THEN [pinned EXCEPT ![l.id] = {}] ELSE pinned
        /\ lease' = [lease EXCEPT ![s] = n]

\* Mutant: a lease keeps its token after its commit.
CommitLease_KeepsToken(s) ==
    LET b == lease[s].id
    IN  /\ submitted' = submitted + 1
        /\ index' = [index EXCEPT ![b] = submitted + 1]
        /\ lease' = [lease EXCEPT ![s] =
                       [SpentLease(b) EXCEPT !.owns = TRUE, !.tokenMoved = FALSE]]
        /\ drained' = FALSE

\* Mutant: a lease keeps its objects after its commit.
CommitLease_KeepsObjects(s) ==
    LET b == lease[s].id
    IN  /\ submitted' = submitted + 1
        /\ index' = [index EXCEPT ![b] = submitted + 1]
        /\ lease' = [lease EXCEPT ![s] =
                       [SpentLease(b) EXCEPT !.retainedMoved = FALSE]]
        /\ drained' = FALSE

\* What commitWithCompletionImpl and commitAndWaitImpl share.
CommitLease(s) ==
    LET b == lease[s].id
    IN  /\ submitted' = submitted + 1
        /\ index' = [index EXCEPT ![b] = submitted + 1]
        /\ lease' = [lease EXCEPT ![s] = SpentLease(b)]
        /\ drained' = FALSE

\* makeCommandBufferImpl up to its wait: under pressure the open current
\* buffer is committed first, so that its token can come back.
UnderPressure == inFlight >= SoftCap /\ Open(Current)

BeginMake(s) ==
    /\ at = "idle"
    /\ allocated < MaxBuffers
    /\ ~lease[s].buf
    /\ IF UnderPressure
       THEN CommitLease(Current)
       ELSE UNCHANGED <<submitted, index, lease, drained>>
    /\ at' = "token"
    /\ slot' = s
    /\ UNCHANGED <<sem, inFlight, completed, released, pinned, alive,
                   allocated, gpuDone, handler, uses, strayed, awaited, acquired>>

TakeToken ==
    /\ at = "token"
    /\ sem > 0
    /\ sem' = sem - 1
    /\ at' = "count"
    /\ UNCHANGED <<inFlight, submitted, completed, leases, queue,
                   slot, awaited, acquired, drained>>

TokenTimeout ==
    /\ at = "token"
    /\ WaitsTimeOut /\ sem = 0
    /\ at' = "idle"
    /\ Replace(slot, NoLease)
    /\ UNCHANGED <<submitted, completed, queue, slot, awaited, acquired, drained>>

\* Mutant: the count is not raised.
CountToken_Uncounted ==
    /\ at = "count"
    /\ at' = "alloc"
    /\ UNCHANGED <<shared, leases, queue, slot, awaited, acquired, drained>>

CountToken ==
    /\ at = "count"
    /\ inFlight' = inFlight + 1
    /\ at' = "alloc"
    /\ UNCHANGED <<sem, submitted, completed, leases, queue,
                   slot, awaited, acquired, drained>>

\* [commandQueue_ commandBuffer] succeeds; the lease is moved into its slot.
FinishMake ==
    /\ at = "alloc"
    /\ allocated' = allocated + 1
    /\ Replace(slot, NewLease(allocated + 1))
    /\ at' = "idle"
    /\ UNCHANGED <<submitted, completed, index, gpuDone, handler, uses, strayed,
                   slot, awaited, acquired, drained>>

\* Mutant: the nil path forgets the semaphore.
NilBuffer_KeepsToken ==
    /\ at = "alloc"
    /\ NilBuffers
    /\ inFlight' = inFlight - 1
    /\ lease' = [lease EXCEPT ![slot] = NoLease]
    /\ at' = "idle"
    /\ UNCHANGED <<sem, submitted, completed, released, pinned, alive, queue,
                   slot, awaited, acquired, drained>>

\* It returns nil: the count, then the token, are given back.
NilBuffer ==
    /\ at = "alloc"
    /\ NilBuffers
    /\ inFlight' = inFlight - 1
    /\ sem' = sem + 1
    /\ lease' = [lease EXCEPT ![slot] = NoLease]
    /\ at' = "idle"
    /\ UNCHANGED <<submitted, completed, released, pinned, alive, queue,
                   slot, awaited, acquired, drained>>

\* adoptRetainedObject while recording into an open buffer.
Adopt(s, o) ==
    /\ at = "idle"
    /\ Open(s)
    /\ o \notin alive
    /\ alive' = alive \cup {o}
    /\ pinned' = [pinned EXCEPT ![lease[s].id] = @ \cup {o}]
    /\ uses' = [uses EXCEPT ![lease[s].id] = @ \cup {o}]
    /\ UNCHANGED <<shared, lease, released, allocated, index, gpuDone, handler,
                   strayed, thread>>

\* A compute or tessellation dispatch overflows the ring while it records
\* into the lease s of its own: the one-off buffer is read by s's buffer, but
\* adopted by the current lease, whatever state that is in.  An empty lease
\* takes nothing; and the vector is unguarded, so an insertion that races
\* with its release may be lost.
AdoptRingFallback(s, o) ==
    LET b == lease[s].id
        c == lease[Current].id
    IN  /\ RingFallback
        /\ at = "idle" \/ (at = "dispatch" /\ slot = s)
        /\ s # Current
        /\ Open(s)
        /\ o \notin alive
        /\ alive' = alive \cup {o}
        /\ uses' = [uses EXCEPT ![b] = @ \cup {o}]
        /\ \/ /\ c # 0
              /\ pinned' = [pinned EXCEPT ![c] = @ \cup {o}]
              /\ strayed' = IF ~Open(Current) /\ handler[c] # "done"
                            THEN [strayed EXCEPT ![b] = @ \cup {o}] ELSE strayed
           \/ /\ c # 0 => handler[c] = "signalled"
              /\ UNCHANGED <<pinned, strayed>>
        /\ at' = "dispatch"
        /\ slot' = s
        /\ UNCHANGED <<shared, lease, released, allocated, index, gpuDone, handler,
                       awaited, acquired, drained>>

\* The dispatch ends in commitAndWait, with nothing done to the current lease
\* since the overflow.
SubmitDispatch ==
    /\ at = "dispatch"
    /\ CommitLease(slot)
    /\ awaited' = lease[slot].id
    /\ at' = "completion"
    /\ UNCHANGED <<sem, inFlight, completed, released, pinned, alive,
                   allocated, gpuDone, handler, uses, strayed, slot, acquired>>

Commit(s) ==
    /\ at = "idle"
    /\ Open(s)
    /\ CommitLease(s)
    /\ UNCHANGED <<sem, inFlight, completed, released, pinned, alive,
                   allocated, gpuDone, handler, uses, strayed, at, slot, awaited, acquired>>

CommitAndWait(s) ==
    /\ at = "idle"
    /\ Open(s)
    /\ CommitLease(s)
    /\ awaited' = lease[s].id
    /\ at' = "completion"
    /\ UNCHANGED <<sem, inFlight, completed, released, pinned, alive,
                   allocated, gpuDone, handler, uses, strayed, slot, acquired>>

\* The handler signals the "done" semaphore last of all.
EndWait ==
    /\ at = "completion"
    /\ handler[awaited] = "done" \/ WaitsTimeOut
    /\ at' = "idle"
    /\ UNCHANGED <<shared, leases, queue, slot, awaited, acquired, drained>>

\* A lease goes out of scope, or is abandoned by name.  The current lease is
\* committed before it is given up, at a reset as at the end of the graph.
Abandon(s) ==
    /\ at = "idle"
    /\ lease[s].id # 0
    /\ s = Current => ~Open(s)
    /\ Replace(s, NoLease)
    /\ UNCHANGED <<submitted, completed, queue, thread>>

\* drainAllOutstanding; its callers commit their open lease first.
BeginDrain ==
    /\ at = "idle"
    /\ \A s \in Slots : ~lease[s].buf
    /\ \E recordWhenIdle \in BOOLEAN :
         IF ~recordWhenIdle /\ inFlight = 0
         THEN /\ drained' = TRUE
              /\ UNCHANGED <<at, acquired>>
         ELSE /\ at' = "drain"
              /\ acquired' = 0
              /\ UNCHANGED drained
    /\ UNCHANGED <<shared, leases, queue, slot, awaited>>

DrainToken ==
    /\ at = "drain"
    /\ acquired < Bound
    /\ sem > 0
    /\ sem' = sem - 1
    /\ acquired' = acquired + 1
    /\ UNCHANGED <<inFlight, submitted, completed, leases, queue,
                   at, slot, awaited, drained>>

\* All tokens collected, or the deadline passed: give them all back.
EndDrain ==
    /\ at = "drain"
    /\ acquired = Bound \/ (WaitsTimeOut /\ sem = 0)
    /\ sem' = sem + acquired
    /\ acquired' = 0
    /\ drained' = (acquired = Bound)
    /\ at' = "idle"
    /\ UNCHANGED <<inFlight, submitted, completed, leases, queue, slot, awaited>>

-----------------------------------------------------------------------------
(* The GPU and the completion handlers.                                    *)

GpuFinish ==
    /\ gpuDone < submitted
    /\ gpuDone' = gpuDone + 1
    /\ UNCHANGED <<shared, leases, allocated, index, handler, uses, strayed, thread>>

\* Mutant: the handler is registered for scheduling, not for completion.
RecordCompleted_WhenScheduled(b) ==
    /\ handler[b] = "none"
    /\ index[b] # 0
    /\ completed' = completed + 1
    /\ handler' = [handler EXCEPT ![b] = "recorded"]
    /\ UNCHANGED <<sem, inFlight, submitted, leases, allocated, index, gpuDone,
                   uses, strayed, thread>>

RecordCompleted(b) ==
    /\ handler[b] = "none"
    /\ GpuFinished(b)
    /\ completed' = completed + 1
    /\ handler' = [handler EXCEPT ![b] = "recorded"]
    /\ UNCHANGED <<sem, inFlight, submitted, leases, allocated, index, gpuDone,
                   uses, strayed, thread>>

\* Mutant: the handler releases no token.
UncountToken_Skipped(b) ==
    /\ handler[b] = "recorded"
    /\ handler' = [handler EXCEPT ![b] = "signalled"]
    /\ UNCHANGED <<shared, leases, allocated, index, gpuDone, uses, strayed, thread>>

\* The first half of releaseToken: the flag, then the count.  With the flag
\* already set (the assertion) it returns without giving a token back.
UncountToken(b) ==
    /\ handler[b] = "recorded"
    /\ released' = [released EXCEPT ![b] = TRUE]
    /\ IF released[b]
       THEN /\ handler' = [handler EXCEPT ![b] = "signalled"]
            /\ UNCHANGED inFlight
       ELSE /\ handler' = [handler EXCEPT ![b] = "uncounted"]
            /\ inFlight' = inFlight - 1
    /\ UNCHANGED <<sem, submitted, completed, lease, pinned, alive,
                   allocated, index, gpuDone, uses, strayed, thread>>

\* Mutant: releaseToken lowers the count but does not signal.
SignalToken_Silent(b) ==
    /\ handler[b] = "uncounted"
    /\ handler' = [handler EXCEPT ![b] = "signalled"]
    /\ UNCHANGED <<shared, leases, allocated, index, gpuDone, uses, strayed, thread>>

SignalToken(b) ==
    /\ handler[b] = "uncounted"
    /\ sem' = sem + 1
    /\ handler' = [handler EXCEPT ![b] = "signalled"]
    /\ UNCHANGED <<inFlight, submitted, completed, leases,
                   allocated, index, gpuDone, uses, strayed, thread>>

\* Mutant: the vector is cleared, the objects in it are not released.
ReleaseRetained_Leaks(b) ==
    /\ handler[b] = "signalled"
    /\ pinned' = [pinned EXCEPT ![b] = {}]
    /\ handler' = [handler EXCEPT ![b] = "done"]
    /\ UNCHANGED <<shared, lease, released, alive, allocated, index, gpuDone,
                   uses, strayed, thread>>

ReleaseRetained(b) ==
    /\ handler[b] = "signalled"
    /\ alive' = alive \ pinned[b]
    /\ pinned' = [pinned EXCEPT ![b] = {}]
    /\ handler' = [handler EXCEPT ![b] = "done"]
    /\ UNCHANGED <<shared, lease, released, allocated, index, gpuDone, uses, strayed, thread>>

-----------------------------------------------------------------------------
\* Steps the GL thread takes once it is inside a call.
Continue ==
    \/ TakeToken \/ TokenTimeout \/ CountToken \/ FinishMake \/ NilBuffer
    \/ SubmitDispatch \/ EndWait \/ DrainToken \/ EndDrain

Call ==
    \/ \E s \in Slots : BeginMake(s) \/ Commit(s) \/ CommitAndWait(s) \/ Abandon(s)
    \/ \E s \in Slots, o \in Objects : Adopt(s, o) \/ AdoptRingFallback(s, o)
    \/ BeginDrain

Handler(b) ==
    RecordCompleted(b) \/ UncountToken(b) \/ SignalToken(b) \/ ReleaseRetained(b)

Next ==
    \/ Call
    \/ Continue
    \/ GpuFinish
    \/ \E b \in Buffers : Handler(b)

\* The GPU makes progress, every handler is run, and a thread inside a call
\* is scheduled; nothing obliges the application to make another call.
Fairness ==
    /\ WF_vars(GpuFinish)
    /\ \A b \in Buffers : WF_vars(Handler(b))
    /\ WF_vars(Continue)

Spec == Init /\ [][Next]_vars

FairSpec == Spec /\ Fairness

-----------------------------------------------------------------------------
\* Every variable has its type.
TypeOK ==
    /\ sem \in Nat
    /\ inFlight \in Nat
    /\ submitted \in Nat
    /\ completed \in Nat
    /\ lease \in [Slots -> Leases]
    /\ released \in [Buffers -> BOOLEAN]
    /\ pinned \in [Buffers -> SUBSET Objects]
    /\ alive \subseteq Objects
    /\ allocated \in 0 .. MaxBuffers
    /\ index \in [Buffers -> Nat]
    /\ gpuDone \in Nat
    /\ handler \in [Buffers -> Stages]
    /\ uses \in [Buffers -> SUBSET Objects]
    /\ strayed \in [Buffers -> SUBSET Objects]
    /\ at \in {"idle", "token", "count", "alloc", "dispatch", "completion", "drain"}
    /\ slot \in Slots
    /\ awaited \in 0 .. MaxBuffers
    /\ acquired \in 0 .. Bound
    /\ drained \in BOOLEAN

\* The buffers whose token is out, and those inFlightCount stands for.
Holders == {b \in 1 .. allocated : ~released[b] \/ handler[b] = "uncounted"}
Counted == {b \in 1 .. allocated : ~released[b]}

\* Tokens the GL thread itself holds, for the buffer it is making or in a
\* drain, and how many of those are in the count.
InHand == CASE at \in {"count", "alloc"} -> 1
            [] at = "drain" -> acquired
            [] OTHER -> 0

CountInHand == IF at = "alloc" THEN 1 ELSE 0

\* No token is lost and none is made: the semaphore, the outstanding buffers
\* and the GL thread account for exactly Bound of them, and inFlightCount
\* never disagrees with the leases.  (releaseToken, abandon, the nil path of
\* makeCommandBufferImpl and drainAllOutstanding all move tokens.)
TokensConserved ==
    /\ sem + Cardinality(Holders) + InHand = Bound
    /\ inFlight = Cardinality(Counted) + CountInHand

\* The assertion in makeCommandBufferImpl: the count never passes the bound,
\* although it is raised after the token is taken and handlers lower it.
InFlightBounded == inFlight <= Bound

\* The assertion in releaseToken: a handler about to return a token finds it
\* unreturned, and so does the destructor of a lease that still owns one.
NoDoubleRelease ==
    /\ \A b \in Buffers :
         handler[b] \in {"none", "recorded"} /\ index[b] # 0 => ~released[b]
    /\ \A s \in Slots :
         lease[s].owns /\ ~lease[s].tokenMoved => ~released[lease[s].id]

\* A submit index at or below the completed watermark means that the GPU is
\* through with that buffer, in whatever order the handlers ran: the test
\* that renaming a buffer instead of writing it rests on.
WatermarkSound ==
    \A b \in Buffers :
        index[b] # 0 /\ index[b] <= completed => GpuFinished(b)

\* An object recorded into a command buffer, by its own lease or by a dispatch
\* that overflowed the ring, stays alive until the GPU has finished the buffer
\* that reads it.  What strayed is left out: it was handed to a current lease
\* already committed, and the handler of that lease's buffer, which need not
\* wait for the buffer that reads the object, releases it.
RetainedUntilCompleted ==
    \A b \in Buffers :
        index[b] # 0 /\ ~GpuFinished(b) => uses[b] \ strayed[b] \subseteq alive

\* The same of everything the buffer reads.  It does not hold when a dispatch
\* overflows the ring while the current lease is spent and not yet settled.
EveryUseRetained ==
    \A b \in Buffers : index[b] # 0 /\ ~GpuFinished(b) => uses[b] \subseteq alive

\* A drain that returned true left nothing behind: every submitted buffer is
\* finished, and recorded as completed.
DrainSound ==
    drained => completed = submitted /\ gpuDone = submitted

\* What is reported complete is: buffer by buffer by the watermark, and all at
\* once by a drain.
CompletionSound == WatermarkSound /\ DrainSound

\* "The completion handler releases it, bounding transient Metal resources
\* by the outstanding command-buffer count": what is alive is held by a
\* buffer that is still outstanding.
AliveWhileOutstanding ==
    \A o \in alive : \E b \in 1 .. allocated :
        o \in pinned[b] /\ handler[b] # "done"

\* Every call returns: the GL thread is the only one that waits for tokens,
\* and as long as it holds fewer open leases than the bound, the tokens it
\* waits for, one at a time or all of them in a drain, come back.
CallsReturn == at # "idle" ~> at = "idle"

-----------------------------------------------------------------------------
\* The pool this implements: a buffer is outstanding while its token is out.
Life ==
    [b \in Buffers |->
        IF b > allocated THEN "unborn"
        ELSE IF b \notin Holders THEN "settled"
        ELSE IF index[b] = 0 THEN "leased"
        ELSE IF handler[b] = "none" THEN "submitted"
        ELSE "finished"]

Pool == INSTANCE CommandBufferPool
            WITH Buffers <- Buffers, Bound <- Bound, life <- Life, quiet <- drained

PoolSpec == Pool!PoolSpec

\* Without liveness, for the proof and the runs in which waits time out.
PoolSafety == Pool!PoolInit /\ [][Pool!PoolNext]_(Pool!poolVars)

=============================================================================
