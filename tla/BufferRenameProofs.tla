------------------------ MODULE BufferRenameProofs ------------------------
(***************************************************************************)
(* Proofs about writes into buffer objects (BufferRename): a draw that has *)
(* not executed finds the contents it was issued with, what a deferred     *)
(* draw refers to is kept for it, and the Metal buffer of an object holds  *)
(* what the application has written last, for any number of objects,       *)
(* allocations, writes and command buffers.                                *)
(*                                                                         *)
(* A write in place is the dangerous one.  It happens when the stamp of    *)
(* the object is not above the number of completions; the invariant says   *)
(* that every draw that refers to the object's present Metal buffer sits   *)
(* in a command buffer whose index the stamp has at least, and that no     *)
(* index behind the GPU has been counted.                                  *)
(***************************************************************************)
EXTENDS BufferRename, Integers, FiniteSetTheorems, TLAPS

\* The references of the draws that have not executed.
Refs == batch \cup open \cup InQueue

-----------------------------------------------------------------------------
(* The queue.                                                              *)

\* What is in the queue once a command buffer is appended.
LEMMA AppendedInQueue ==
    ASSUME NEW T, queue \in Seq(T), NEW s \in T, queue' = Append(queue, s)
    PROVE  InQueue' = InQueue \cup s
<1>1. /\ Len(queue') = Len(queue) + 1
      /\ \A i \in 1 .. Len(queue) : queue'[i] = queue[i]
      /\ queue'[Len(queue) + 1] = s
  OBVIOUS
<1>2. ASSUME NEW r \in InQueue'
      PROVE  r \in InQueue \cup s
  <2>1. PICK i \in 1 .. Len(queue) + 1 : r \in queue'[i]
    BY <1>1 DEF InQueue
  <2> QED
    BY <1>1, <2>1 DEF InQueue
<1>3. ASSUME NEW r \in InQueue
      PROVE  r \in InQueue'
  <2>1. PICK i \in 1 .. Len(queue) : r \in queue[i]
    BY DEF InQueue
  <2>2. r \in queue'[i] /\ i \in 1 .. Len(queue')
    BY <1>1, <2>1
  <2> QED
    BY <2>2 DEF InQueue
<1>4. ASSUME NEW r \in s
      PROVE  r \in InQueue'
  <2>1. r \in queue'[Len(queue) + 1] /\ Len(queue) + 1 \in 1 .. Len(queue')
    BY <1>1
  <2> QED
    BY <2>1 DEF InQueue
<1> QED
  BY <1>2, <1>3, <1>4

\* What remains in it once the oldest has gone.
LEMMA TailInQueue ==
    ASSUME NEW T, queue \in Seq(T), queue # <<>>, queue' = Tail(queue)
    PROVE  InQueue' \subseteq InQueue
<1>1. /\ Len(queue') = Len(queue) - 1
      /\ \A i \in 1 .. Len(queue) - 1 : queue'[i] = queue[i + 1]
  OBVIOUS
<1> SUFFICES ASSUME NEW r \in InQueue'
             PROVE  r \in InQueue
  OBVIOUS
<1>2. PICK i \in 1 .. Len(queue) - 1 : r \in queue'[i]
  BY <1>1 DEF InQueue
<1>3. r \in queue[i + 1] /\ i + 1 \in 1 .. Len(queue)
  BY <1>1, <1>2
<1> QED
  BY <1>3 DEF InQueue

\* An empty queue holds nothing.
LEMMA EmptyInQueue ==
    ASSUME queue = <<>>
    PROVE  InQueue = {}
BY DEF InQueue

-----------------------------------------------------------------------------
(* Counting completions.                                                   *)

\* Every command buffer that has left the queue is either counted as completed
\* or has a handler to run.
Counted ==
    /\ Len(queue) <= submitted
    /\ handlers \subseteq 1 .. submitted - Len(queue)
    /\ completed + Cardinality(handlers) = submitted - Len(queue)

\* Types, with the count they need.
TypeInv == TypeOK /\ Counted

\* A handler that has run is one less.
LEMMA HandlersCounted ==
    ASSUME NEW n \in Nat, NEW S \in SUBSET (1 .. n)
    PROVE  /\ IsFiniteSet(S)
           /\ Cardinality(S) \in Nat
           /\ \A i \in S : Cardinality(S \ {i}) = Cardinality(S) - 1
           /\ Cardinality(S \cup {n + 1}) = Cardinality(S) + 1
<1>1. IsFiniteSet(1 .. n)
  BY FS_Interval
<1>2. IsFiniteSet(S)
  BY <1>1, FS_Subset
<1>3. n + 1 \notin S
  OBVIOUS
<1> QED
  BY <1>2, <1>3, FS_CardinalityType, FS_AddElement, FS_RemoveElement

\* A command buffer that has not left the queue has not been counted.
LEMMA CompletedBehindQueue ==
    ASSUME TypeOK, Counted
    PROVE  /\ completed <= submitted - Len(queue)
           /\ Len(queue) \in Nat /\ submitted - Len(queue) \in Nat
<1>1. Len(queue) \in Nat /\ submitted \in Nat /\ completed \in Nat
  BY DEF TypeOK
<1>2. submitted - Len(queue) \in Nat
  BY <1>1 DEF Counted
<1>3. Cardinality(handlers) \in Nat
  BY <1>2, HandlersCounted DEF Counted
<1> QED
  BY <1>1, <1>2, <1>3 DEF Counted

\* A commit is typed, and counted as one more in the queue.
LEMMA SubmitTyped ==
    ASSUME TypeInv, NEW s \in SUBSET References, Submit(s)
    PROVE  /\ queue' \in Seq(SUBSET References)
           /\ Len(queue') = Len(queue) + 1
           /\ submitted' = submitted + 1
           /\ submitted' \in 0 .. MaxSubmits
           /\ completed' \in 0 .. submitted'
           /\ handlers' \subseteq 1 .. submitted'
           /\ Counted'
<1>1. /\ queue \in Seq(SUBSET References) /\ submitted \in 0 .. MaxSubmits
      /\ completed \in 0 .. submitted /\ handlers \subseteq 1 .. submitted
      /\ MaxSubmits \in Nat
  BY RenameAssumption DEF TypeInv, TypeOK
<1>2. /\ queue' = Append(queue, s) /\ submitted < MaxSubmits
      /\ submitted' = submitted + 1 /\ handlers' = handlers /\ completed' = completed
  BY DEF Submit
<1>3. queue' \in Seq(SUBSET References) /\ Len(queue') = Len(queue) + 1
  BY <1>1, <1>2
<1>4. Len(queue) \in Nat
  BY <1>1
<1>5. Counted'
  BY <1>1, <1>2, <1>3, <1>4 DEF TypeInv, Counted
<1> QED
  BY <1>1, <1>2, <1>3, <1>5

\* A reference is one.
LEMMA ReferenceTyped ==
    ASSUME TypeOK, NEW b \in Buffers
    PROVE  Reference(b) \in References
<1>1. /\ metal[b] \in Allocations /\ shadow[b] \in 0 .. writes
      /\ writes \in 0 .. MaxWrites /\ MaxWrites \in Nat
  BY RenameAssumption DEF TypeOK
<1>2. shadow[b] \in 0 .. MaxWrites
  BY <1>1
<1> QED
  BY <1>1, <1>2 DEF Reference, References
-----------------------------------------------------------------------------
(* Type correctness.                                                       *)

\* The stamps stay indices when command buffers are committed.
LEMMA StampsTyped ==
    ASSUME TypeOK, NEW n \in Nat, submitted <= n
    PROVE  /\ stamp \in [Buffers -> 0 .. n + 1]
           /\ \A b \in Buffers : [stamp EXCEPT ![b] = OpenIndex] \in [Buffers -> 0 .. n + 1]
           /\ \A b \in Buffers : [stamp EXCEPT ![b] = 0] \in [Buffers -> 0 .. n + 1]
<1>1. submitted \in Nat
  BY DEF TypeOK
<1>2. \A c \in Buffers : stamp[c] \in 0 .. n + 1
  BY <1>1 DEF TypeOK
<1>3. stamp \in [Buffers -> 0 .. n + 1]
  BY <1>2 DEF TypeOK
<1>4. OpenIndex \in 0 .. n + 1
  BY <1>1 DEF OpenIndex
<1> QED
  BY <1>3, <1>4

\* So do the contents when there is a write, in the shadow and in an allocation.
LEMMA WriteTyped ==
    ASSUME TypeOK, NEW b \in Buffers, ToShadow(b)
    PROVE  /\ writes' \in 0 .. MaxWrites
           /\ shadow' \in [Buffers -> 0 .. writes']
           /\ \A a \in Allocations :
                [bytes EXCEPT ![a] = writes + 1] \in [Allocations -> 0 .. writes']
           /\ bytes \in [Allocations -> 0 .. writes']
<1>1. /\ writes \in Nat /\ writes' = writes + 1 /\ writes' \in 0 .. MaxWrites
      /\ shadow' = [shadow EXCEPT ![b] = writes + 1]
  BY RenameAssumption DEF TypeOK, ToShadow
<1>2. (\A c \in Buffers : shadow[c] \in 0 .. writes') /\ writes + 1 \in 0 .. writes'
  BY <1>1 DEF TypeOK
<1>3. \A a \in Allocations : bytes[a] \in 0 .. writes'
  BY <1>1 DEF TypeOK
<1>4. shadow' \in [Buffers -> 0 .. writes']
  BY <1>1, <1>2 DEF TypeOK
<1>5. bytes \in [Allocations -> 0 .. writes']
  BY <1>3 DEF TypeOK
<1> QED
  BY <1>1, <1>2, <1>4, <1>5

\* An object keeps a Metal buffer, whichever it gets.
LEMMA MetalTyped ==
    ASSUME TypeOK, NEW b \in Buffers, NEW a \in Allocations
    PROVE  /\ [metal EXCEPT ![b] = a] \in [Buffers -> Allocations]
           /\ metal[b] \in Allocations
BY DEF TypeOK

\* Each draw preserves the types.
LEMMA DrawTypeInv ==
    ASSUME TypeInv, NEW b \in Buffers,
           DrawSerial(b) \/ DrawRotated(b) \/ DrawDeferred(b)
    PROVE  TypeInv'
<1>1. TypeOK /\ Counted /\ Reference(b) \in References /\ submitted \in Nat
  BY ReferenceTyped DEF TypeInv, TypeOK
<1>2. batch \subseteq References /\ open \subseteq References
  BY <1>1 DEF TypeOK
<1>3. CASE DrawSerial(b)
  <2>1. stamp' \in [Buffers -> 0 .. submitted + 1]
    BY <1>1, <1>3, StampsTyped DEF DrawSerial
  <2>2. open' \subseteq References /\ UNCHANGED <<queue, handlers, submitted, completed>>
    BY <1>1, <1>2, <1>3 DEF DrawSerial, submission
  <2>3. Counted'
    BY <1>1, <2>2 DEF Counted
  <2> QED
    BY <1>1, <1>3, <2>1, <2>2, <2>3 DEF DrawSerial, TypeInv, TypeOK
<1>4. CASE DrawRotated(b)
  <2>1. Submit(open \cup batch) /\ open \cup batch \in SUBSET References
    BY <1>2, <1>4 DEF DrawRotated
  <2>2. /\ queue' \in Seq(SUBSET References) /\ submitted' = submitted + 1
        /\ submitted' \in 0 .. MaxSubmits /\ completed' \in 0 .. submitted'
        /\ handlers' \subseteq 1 .. submitted' /\ Counted'
    BY <2>1, SubmitTyped
  <2>3. stamp' \in [Buffers -> 0 .. submitted' + 1]
    BY <1>1, <1>4, <2>2, StampsTyped DEF DrawRotated
  <2>4. open' \subseteq References
    BY <1>1, <1>4 DEF DrawRotated
  <2> QED
    BY <1>1, <1>4, <2>2, <2>3, <2>4 DEF DrawRotated, TypeInv, TypeOK
<1>5. CASE DrawDeferred(b)
  <2>1. stamp' \in [Buffers -> 0 .. submitted + 1]
    BY <1>1, <1>5, StampsTyped DEF DrawDeferred
  <2>2. /\ batch' \subseteq References
        /\ UNCHANGED <<isOpen, open, queue, handlers, submitted, completed>>
    BY <1>1, <1>2, <1>5 DEF DrawDeferred, submission, current
  <2>3. Counted'
    BY <1>1, <2>2 DEF Counted
  <2> QED
    BY <1>1, <1>5, <2>1, <2>2, <2>3 DEF DrawDeferred, TypeInv, TypeOK
<1> QED
  BY <1>3, <1>4, <1>5

\* So does each write.
LEMMA WriteTypeInv ==
    ASSUME TypeInv, NEW b \in Buffers,
           \/ WriteUnread(b) \/ WriteRenaming(b) \/ WriteUnrenamed(b)
           \/ WriteAfterFinish(b) \/ WriteAfterTimeout(b)
           \/ WritePinned(b) \/ Respecify(b)
    PROVE  TypeInv'
<1>1. TypeOK /\ Counted /\ submitted \in Nat /\ metal[b] \in Allocations
  BY DEF TypeInv, TypeOK
<1>2. ToShadow(b)
  BY DEF WriteUnread, WriteRenaming, WriteUnrenamed, WriteAfterFinish, WriteAfterTimeout,
         WritePinned, Respecify
<1>3. /\ writes' \in 0 .. MaxWrites /\ shadow' \in [Buffers -> 0 .. writes']
      /\ \A a \in Allocations :
           [bytes EXCEPT ![a] = writes + 1] \in [Allocations -> 0 .. writes']
  BY <1>1, <1>2, WriteTyped
<1>4. InPlace(b) => bytes' \in [Allocations -> 0 .. writes'] /\ metal' = metal
  BY <1>1, <1>3 DEF InPlace
<1>5. batch \subseteq References /\ open \subseteq References /\ keepalives \subseteq Allocations
  BY <1>1 DEF TypeOK
<1>6. CASE WriteUnread(b) \/ WriteUnrenamed(b)
  <2>1. /\ UNCHANGED <<stamp, batch, keepalives, isOpen, open, queue, handlers,
                       submitted, completed, workload>>
        /\ InPlace(b)
    BY <1>6 DEF WriteUnread, WriteUnrenamed, deferred, current, submission
  <2>2. Counted'
    BY <1>1, <2>1 DEF Counted
  <2> QED
    BY <1>1, <1>3, <1>4, <2>1, <2>2 DEF TypeInv, TypeOK
<1>11. CASE WriteAfterTimeout(b)
  <2>1. /\ batch' = {} /\ keepalives' = {} /\ isOpen' = FALSE /\ open' = {}
        /\ stamp' = [stamp EXCEPT ![b] = 0] /\ workload' = workload
        /\ Submit(open \cup batch) \/ UNCHANGED <<queue, handlers, submitted, completed>>
        /\ InPlace(b)
    BY <1>11 DEF WriteAfterTimeout, submission
  <2>2. /\ queue' \in Seq(SUBSET References) /\ submitted' \in 0 .. MaxSubmits
        /\ completed' \in 0 .. submitted' /\ handlers' \subseteq 1 .. submitted'
        /\ Counted' /\ submitted <= submitted'
    <3>1. CASE Submit(open \cup batch)
      <4>1. open \cup batch \in SUBSET References
        BY <1>5
      <4> QED
        BY <1>1, <3>1, <4>1, SubmitTyped
    <3>2. CASE UNCHANGED <<queue, handlers, submitted, completed>>
      BY <1>1, <3>2 DEF Counted, TypeOK
    <3> QED
      BY <2>1, <3>1, <3>2
  <2>3. stamp' \in [Buffers -> 0 .. submitted' + 1]
    <3>1. submitted' \in Nat
      BY <1>1, <2>2
    <3> QED
      BY <1>1, <2>1, <2>2, <3>1, StampsTyped
  <2> QED
    BY <1>1, <1>3, <1>4, <2>1, <2>2, <2>3 DEF TypeInv, TypeOK
<1>7. CASE WriteRenaming(b)
  <2>1. PICK a \in Allocations : /\ metal' = [metal EXCEPT ![b] = a]
                                 /\ bytes' = [bytes EXCEPT ![a] = writes + 1]
    BY <1>7 DEF WriteRenaming, Free
  <2>2. /\ UNCHANGED <<batch, isOpen, open, queue, handlers, submitted, completed, workload>>
        /\ stamp' = [stamp EXCEPT ![b] = 0]
        /\ keepalives' \subseteq keepalives \cup {metal[b]}
    BY <1>7 DEF WriteRenaming, current, submission
  <2>3. Counted'
    BY <1>1, <2>2 DEF Counted
  <2>4. stamp' \in [Buffers -> 0 .. submitted + 1]
    BY <1>1, <2>2, StampsTyped
  <2> QED
    BY <1>1, <1>3, <1>5, <2>1, <2>2, <2>3, <2>4, MetalTyped DEF TypeInv, TypeOK
<1>8. CASE WriteAfterFinish(b)
  <2>1. /\ submitted' \in {submitted, submitted + 1} /\ submitted' <= MaxSubmits
        /\ completed' = submitted' /\ queue' = <<>> /\ handlers' = {}
        /\ batch' = {} /\ keepalives' = {} /\ isOpen' = FALSE /\ open' = {}
        /\ stamp' = [stamp EXCEPT ![b] = 0] /\ workload' = workload
    BY <1>8 DEF WriteAfterFinish
  <2>2. submitted' \in 0 .. MaxSubmits
    BY <1>1, <2>1, RenameAssumption
  <2>3. stamp' \in [Buffers -> 0 .. submitted' + 1]
    <3>1. submitted' \in Nat /\ submitted <= submitted'
      BY <1>1, <2>1, <2>2
    <3> QED
      BY <1>1, <2>1, <3>1, StampsTyped
  <2>4. Counted'
    BY <2>1, <2>2, FS_EmptySet DEF Counted
  <2>5. /\ queue' \in Seq(SUBSET References) /\ completed' \in 0 .. submitted'
        /\ metal' = metal /\ metal \in [Buffers -> Allocations] /\ workload \in Workloads
        /\ bytes' \in [Allocations -> 0 .. writes']
    BY <1>1, <1>4, <1>8, <2>1, <2>2 DEF WriteAfterFinish, TypeOK
  <2> QED
    BY <1>3, <2>1, <2>2, <2>3, <2>4, <2>5 DEF TypeInv, TypeOK
<1>9. CASE WritePinned(b)
  <2>1. UNCHANGED <<stamp, queue, handlers, submitted, completed, workload>>
    BY <1>9 DEF WritePinned, submission
  <2>2. Counted'
    BY <1>1, <2>1 DEF Counted
  <2> QED
    BY <1>1, <1>3, <1>4, <1>5, <1>9, <2>1, <2>2 DEF WritePinned, FlushBatch, TypeInv, TypeOK
<1>10. CASE Respecify(b)
  <2>1. PICK a \in Allocations : /\ metal' = [metal EXCEPT ![b] = a]
                                 /\ bytes' = [bytes EXCEPT ![a] = writes + 1]
    BY <1>10 DEF Respecify
  <2>2. UNCHANGED <<stamp, queue, handlers, submitted, completed, workload>> /\ FlushBatch
    BY <1>10 DEF Respecify, submission
  <2>3. Counted'
    BY <1>1, <2>2 DEF Counted
  <2> QED
    BY <1>1, <1>3, <1>5, <2>1, <2>2, <2>3, MetalTyped DEF FlushBatch, TypeInv, TypeOK
<1> QED
  BY <1>6, <1>7, <1>8, <1>9, <1>10, <1>11

\* And what the queue does.
LEMMA QueueTypeInv ==
    ASSUME TypeInv,
           \/ Boundary \/ Commit \/ Separate \/ GpuFinish
           \/ \E i \in 1 .. MaxSubmits : RecordCompletion(i)
    PROVE  TypeInv'
<1>1. TypeOK /\ Counted /\ submitted \in Nat
  BY DEF TypeInv, TypeOK
<1>2. batch \subseteq References /\ open \subseteq References
  BY <1>1 DEF TypeOK
<1>3. CASE Boundary
  <2>1. /\ UNCHANGED <<shadow, metal, stamp, bytes, writes, queue, handlers, submitted,
                       completed, workload>>
        /\ FlushBatch
    BY <1>3 DEF Boundary, objects, submission
  <2>2. Counted'
    BY <1>1, <2>1 DEF Counted
  <2> QED
    BY <1>1, <1>2, <2>1, <2>2 DEF FlushBatch, TypeInv, TypeOK
<1>4. ASSUME NEW s \in SUBSET References, Submit(s),
             UNCHANGED <<shadow, metal, stamp, bytes, writes, workload>>,
             batch' \subseteq batch, keepalives' \subseteq keepalives,
             isOpen' \in BOOLEAN, open' \subseteq open
      PROVE  TypeInv'
  <2>1. /\ queue' \in Seq(SUBSET References) /\ submitted' = submitted + 1
        /\ submitted' \in 0 .. MaxSubmits /\ completed' \in 0 .. submitted'
        /\ handlers' \subseteq 1 .. submitted' /\ Counted'
    BY <1>4, SubmitTyped
  <2>2. stamp' \in [Buffers -> 0 .. submitted' + 1]
    BY <1>1, <1>4, <2>1, StampsTyped
  <2> QED
    BY <1>1, <1>2, <1>4, <2>1, <2>2 DEF TypeInv, TypeOK
<1>5. CASE Commit
  <2>1. open \cup batch \in SUBSET References
    BY <1>2
  <2> QED
    BY <1>4, <1>5, <2>1 DEF Commit, objects
<1>6. CASE Separate
  BY <1>1, <1>4, <1>6 DEF Separate, objects, deferred, current, TypeOK
<1>7. CASE GpuFinish
  <2>1. /\ queue # <<>> /\ queue' = Tail(queue)
        /\ handlers' = handlers \cup {submitted - Len(queue) + 1}
        /\ UNCHANGED <<shadow, metal, stamp, bytes, writes, batch, keepalives, isOpen, open,
                       submitted, completed, workload>>
    BY <1>7 DEF GpuFinish, objects, deferred, current
  <2>2. /\ queue' \in Seq(SUBSET References)
        /\ Len(queue) \in Nat \ {0} /\ Len(queue') = Len(queue) - 1
    BY <1>1, <2>1 DEF TypeOK
  <2>3. submitted - Len(queue) \in Nat /\ handlers \subseteq 1 .. submitted - Len(queue)
    BY <1>1, CompletedBehindQueue DEF Counted
  <2>4. Cardinality(handlers') = Cardinality(handlers) + 1 /\ Cardinality(handlers) \in Nat
    BY <2>1, <2>3, HandlersCounted
  <2>5. handlers' \subseteq 1 .. submitted' - Len(queue') /\ handlers' \subseteq 1 .. submitted'
    <3>1. submitted - Len(queue) + 1 = submitted' - Len(queue')
      BY <1>1, <2>1, <2>2
    <3>2. submitted - Len(queue) + 1 <= submitted
      BY <1>1, <2>2
    <3>3. ASSUME NEW i \in handlers'
          PROVE  i \in 1 .. submitted - Len(queue) + 1
      BY <2>1, <2>3
    <3>4. ASSUME NEW i \in handlers'
          PROVE  i \in 1 .. submitted' - Len(queue') /\ i \in 1 .. submitted'
      <4>1. submitted' = submitted /\ Len(queue) \in Nat
        BY <2>1, <2>2
      <4> QED
        BY <1>1, <3>1, <3>2, <3>3, <4>1
    <3> QED
      BY <3>4
  <2>6. Counted'
    <3>1. completed \in Nat
      BY <1>1 DEF TypeOK
    <3>2. completed + Cardinality(handlers) = submitted - Len(queue)
      BY <1>1 DEF Counted
    <3>3. completed' + Cardinality(handlers') = submitted' - Len(queue')
      BY <1>1, <2>1, <2>2, <2>3, <2>4, <3>1, <3>2
    <3>4. Len(queue') <= submitted'
      BY <1>1, <2>1, <2>2, <2>3
    <3> QED
      BY <2>5, <3>3, <3>4 DEF Counted
  <2> QED
    BY <1>1, <2>1, <2>2, <2>5, <2>6 DEF TypeInv, TypeOK
<1>8. ASSUME NEW i \in 1 .. MaxSubmits, RecordCompletion(i)
      PROVE  TypeInv'
  <2>1. /\ i \in handlers /\ handlers' = handlers \ {i} /\ completed' = completed + 1
        /\ UNCHANGED <<shadow, metal, stamp, bytes, writes, batch, keepalives, isOpen, open,
                       queue, submitted, workload>>
    BY <1>8 DEF RecordCompletion, objects, deferred, current
  <2>2. submitted - Len(queue) \in Nat /\ handlers \subseteq 1 .. submitted - Len(queue)
    BY <1>1, CompletedBehindQueue DEF Counted
  <2>3. Cardinality(handlers') = Cardinality(handlers) - 1 /\ Cardinality(handlers) \in Nat
    BY <2>1, <2>2, HandlersCounted
  <2>4. Counted' /\ completed' \in 0 .. submitted'
    <3>1. Cardinality(handlers') \in Nat
      <4>1. handlers' \in SUBSET (1 .. submitted - Len(queue))
        BY <2>1, <2>2
      <4> QED
        BY <2>2, <4>1, HandlersCounted
    <3>2. completed \in Nat /\ Len(queue) \in Nat
      BY <1>1 DEF TypeOK
    <3> QED
      BY <1>1, <2>1, <2>2, <2>3, <3>1, <3>2 DEF Counted
  <2> QED
    BY <1>1, <2>1, <2>4 DEF TypeInv, TypeOK
<1> QED
  BY <1>3, <1>5, <1>6, <1>7, <1>8

\* Every step preserves them.
LEMMA NextTypeInv ==
    ASSUME TypeInv, [Next]_vars
    PROVE  TypeInv'
<1>1. CASE UNCHANGED vars
  BY <1>1 DEF vars, TypeInv, TypeOK, Counted
<1> QED
  BY <1>1, DrawTypeInv, WriteTypeInv, QueueTypeInv DEF Next

\* The first state is typed.
LEMMA InitTypeInv ==
    ASSUME Init
    PROVE  TypeInv
<1>1. /\ 0 \in 0 .. MaxSubmits /\ 0 \in 0 .. MaxWrites
      /\ First \in [Buffers -> Allocations]
  BY RenameAssumption
<1>2. TypeOK
  <2>1. stamp \in [Buffers -> 0 .. submitted + 1] /\ submitted = 0
    BY DEF Init
  <2>2. shadow \in [Buffers -> 0 .. writes] /\ bytes \in [Allocations -> 0 .. writes]
    BY DEF Init
  <2>3. queue \in Seq(SUBSET References) /\ completed \in 0 .. submitted
    BY DEF Init
  <2> QED
    BY <1>1, <2>1, <2>2, <2>3 DEF Init, TypeOK
<1>3. Counted
  BY FS_EmptySet DEF Init, Counted
<1> QED
  BY <1>2, <1>3 DEF TypeInv

\* Types hold, and with them the count: each command buffer that has left the
\* queue has been counted as completed once, or is still to be.
THEOREM SpecTypeInv == Spec => []TypeInv
BY InitTypeInv, NextTypeInv, PTL DEF Spec

\* Every variable keeps its type; no command buffer is counted as completed that
\* has not been submitted.
THEOREM SpecTypeOK == Spec => []TypeOK
<1>1. TypeInv => TypeOK
  BY DEF TypeInv
<1> QED
  BY <1>1, SpecTypeInv, PTL

-----------------------------------------------------------------------------
(* The references of the draws that have not executed.                     *)

\* They are references.
LEMMA RefsTyped ==
    ASSUME TypeOK
    PROVE  /\ Refs \subseteq References
           /\ \A r \in Refs : r.buffer \in Buffers /\ r.alloc \in Allocations
<1>1. InQueue \subseteq References
  <2>1. \A i \in 1 .. Len(queue) : queue[i] \subseteq References
    BY DEF TypeOK
  <2> QED
    BY <2>1 DEF InQueue
<1>2. Refs \subseteq References
  BY <1>1 DEF Refs, TypeOK
<1> QED
  BY <1>2 DEF References

\* A draw adds its own.
LEMMA DrawRefs ==
    ASSUME TypeOK, NEW b \in Buffers,
           DrawSerial(b) \/ DrawRotated(b) \/ DrawDeferred(b)
    PROVE  Refs' \subseteq Refs \cup {Reference(b)}
<1>0. batch \subseteq References /\ open \subseteq References /\ queue \in Seq(SUBSET References)
  BY DEF TypeOK
<1>1. CASE DrawSerial(b)
  <2>1. InQueue' = InQueue
    BY <1>1 DEF DrawSerial, submission, InQueue
  <2> QED
    BY <1>1, <2>1 DEF DrawSerial, Refs
<1>2. CASE DrawRotated(b)
  <2>1. open \cup batch \in SUBSET References /\ queue' = Append(queue, open \cup batch)
    BY <1>0, <1>2 DEF DrawRotated, Submit
  <2>2. InQueue' = InQueue \cup (open \cup batch)
    BY <1>0, <2>1, AppendedInQueue
  <2> QED
    BY <1>2, <2>2 DEF DrawRotated, Refs
<1>3. CASE DrawDeferred(b)
  <2>1. InQueue' = InQueue /\ open' = open
    BY <1>3 DEF DrawDeferred, submission, current, InQueue
  <2> QED
    BY <1>3, <2>1 DEF DrawDeferred, Refs
<1> QED
  BY <1>1, <1>2, <1>3

\* Whatever else happens adds none.
LEMMA OtherRefs ==
    ASSUME TypeOK,
           \/ \E b \in Buffers : \/ WriteUnread(b) \/ WriteRenaming(b) \/ WriteUnrenamed(b)
                                 \/ WriteAfterFinish(b) \/ WriteAfterTimeout(b)
                                 \/ WritePinned(b) \/ Respecify(b)
           \/ Boundary \/ Commit \/ Separate \/ GpuFinish
           \/ \E i \in 1 .. MaxSubmits : RecordCompletion(i)
           \/ UNCHANGED vars
    PROVE  Refs' \subseteq Refs
<1>0. batch \subseteq References /\ open \subseteq References /\ queue \in Seq(SUBSET References)
  BY DEF TypeOK
<1>1. UNCHANGED queue => InQueue' = InQueue
  BY DEF InQueue
<1>2. UNCHANGED queue /\ batch' \cup open' \subseteq batch \cup open => Refs' \subseteq Refs
  BY <1>1 DEF Refs
<1>3. ASSUME NEW b \in Buffers, WriteUnread(b) \/ WriteRenaming(b) \/ WriteUnrenamed(b)
      PROVE  Refs' \subseteq Refs
  BY <1>2, <1>3 DEF WriteUnread, WriteRenaming, WriteUnrenamed, deferred, current, submission
<1>12. ASSUME NEW b \in Buffers, WriteAfterTimeout(b)
       PROVE  Refs' \subseteq Refs
  <2>1. batch' = {} /\ open' = {}
    BY <1>12 DEF WriteAfterTimeout
  <2>2. CASE Submit(open \cup batch)
    <3>1. open \cup batch \in SUBSET References /\ queue' = Append(queue, open \cup batch)
      BY <1>0, <2>2 DEF Submit
    <3>2. InQueue' = InQueue \cup (open \cup batch)
      BY <1>0, <3>1, AppendedInQueue
    <3> QED
      BY <2>1, <3>2 DEF Refs
  <2>3. CASE UNCHANGED queue
    BY <1>2, <2>1, <2>3
  <2> QED
    BY <1>12, <2>2, <2>3 DEF WriteAfterTimeout, submission
<1>4. ASSUME NEW b \in Buffers, WriteAfterFinish(b)
      PROVE  Refs' \subseteq Refs
  <2>1. batch' = {} /\ open' = {} /\ queue' = <<>>
    BY <1>4 DEF WriteAfterFinish
  <2>2. InQueue' = {}
    BY <2>1 DEF InQueue
  <2> QED
    BY <2>1, <2>2 DEF Refs
<1>5. ASSUME NEW b \in Buffers, WritePinned(b) \/ Respecify(b)
      PROVE  Refs' \subseteq Refs
  BY <1>2, <1>5 DEF WritePinned, Respecify, FlushBatch, submission
<1>6. CASE Boundary
  BY <1>2, <1>6 DEF Boundary, FlushBatch, submission
<1>7. CASE Commit
  <2>1. open \cup batch \in SUBSET References /\ queue' = Append(queue, open \cup batch)
    BY <1>0, <1>7 DEF Commit, Submit
  <2>2. InQueue' = InQueue \cup (open \cup batch)
    BY <1>0, <2>1, AppendedInQueue
  <2> QED
    BY <1>7, <2>2 DEF Commit, Refs
<1>8. CASE Separate
  <2>1. queue' = Append(queue, {}) /\ batch' = batch /\ open' = open
    BY <1>8 DEF Separate, Submit, deferred, current
  <2>2. {} \in SUBSET References
    OBVIOUS
  <2>3. InQueue' = InQueue \cup {}
    BY <1>0, <2>1, <2>2, AppendedInQueue
  <2> QED
    BY <2>1, <2>3 DEF Refs
<1>9. CASE GpuFinish
  <2>1. InQueue' \subseteq InQueue
    BY <1>0, <1>9, TailInQueue DEF GpuFinish
  <2> QED
    BY <1>9, <2>1 DEF GpuFinish, deferred, current, Refs
<1>10. ASSUME NEW i \in 1 .. MaxSubmits, RecordCompletion(i)
       PROVE  Refs' \subseteq Refs
  BY <1>2, <1>10 DEF RecordCompletion, deferred, current
<1>11. CASE UNCHANGED vars
  BY <1>2, <1>11 DEF vars
<1> QED
  BY <1>3, <1>4, <1>5, <1>6, <1>7, <1>8, <1>9, <1>10, <1>11, <1>12

-----------------------------------------------------------------------------
(* Who owns which allocation.                                              *)

\* Two objects have two Metal buffers.
Apart == \A b, c \in Buffers : metal[b] = metal[c] => b = c

\* A Metal buffer that a draw refers to is not the present one of another object.
Owned == \A r \in Refs : \A c \in Buffers : r.alloc = metal[c] => r.buffer = c

\* A deferred draw refers to the present Metal buffer of its object, or to one
\* that was donated to its batch; and without a command buffer there is no
\* encoded draw.
Kept ==
    /\ \A r \in batch : r.alloc = metal[r.buffer] \/ r.alloc \in keepalives
    /\ keepalives # {} => batch # {}
    /\ ~isOpen => open = {}

\* An allocation that is handed out.
Unused(a) ==
    /\ a \in Allocations
    /\ \A c \in Buffers : metal[c] # a
    /\ \A r \in Refs : r.alloc # a

\* A renaming write gets an allocation that nobody uses: what a deferred draw
\* refers to without a retain is held for it.
LEMMA RenamingUnused ==
    ASSUME TypeOK, Kept, NEW b \in Buffers, WriteRenaming(b)
    PROVE  \E a : /\ Unused(a)
                  /\ metal' = [metal EXCEPT ![b] = a]
                  /\ bytes' = [bytes EXCEPT ![a] = writes + 1]
<1>1. PICK a \in Free : /\ metal' = [metal EXCEPT ![b] = a]
                        /\ bytes' = [bytes EXCEPT ![a] = writes + 1]
  BY DEF WriteRenaming
<1>2. a \in Allocations /\ a \notin Held
  BY <1>1 DEF Free
<1>3. \A c \in Buffers : metal[c] # a
  BY <1>2 DEF Held
<1>4. ASSUME NEW r \in Refs
      PROVE  r.alloc # a
  <2>1. CASE r \in batch
    BY <1>2, <1>3, <2>1, RefsTyped DEF Kept, Held, Refs
  <2>2. CASE r \in open \cup InQueue
    BY <1>2, <2>2 DEF Held
  <2> QED
    BY <2>1, <2>2 DEF Refs
<1> QED
  BY <1>1, <1>2, <1>3, <1>4 DEF Unused

\* So does a respecification.
LEMMA RespecifyUnused ==
    ASSUME NEW b \in Buffers, Respecify(b)
    PROVE  \E a : /\ Unused(a)
                  /\ metal' = [metal EXCEPT ![b] = a]
                  /\ bytes' = [bytes EXCEPT ![a] = writes + 1]
<1>1. PICK a \in Allocations \ ({metal[c] : c \in Buffers}
                                  \cup {r.alloc : r \in open \cup batch \cup InQueue}) :
        /\ metal' = [metal EXCEPT ![b] = a]
        /\ bytes' = [bytes EXCEPT ![a] = writes + 1]
  BY DEF Respecify
<1>2. Unused(a)
  BY <1>1 DEF Unused, Refs
<1> QED
  BY <1>1, <1>2

\* The steps that leave the Metal buffers and their contents alone.
LEMMA QuietSteps ==
    ASSUME \/ \E b \in Buffers : DrawSerial(b) \/ DrawRotated(b) \/ DrawDeferred(b)
           \/ Boundary \/ Commit \/ Separate \/ GpuFinish
           \/ \E i \in 1 .. MaxSubmits : RecordCompletion(i)
           \/ UNCHANGED vars
    PROVE  UNCHANGED <<shadow, metal, bytes>>
BY DEF DrawSerial, DrawRotated, DrawDeferred, Boundary, Commit, Separate, GpuFinish,
       RecordCompletion, objects, vars

\* The writes in place.
InPlaceWrite(b) ==
    \/ WriteUnread(b) \/ WriteUnrenamed(b)
    \/ WriteAfterFinish(b) \/ WriteAfterTimeout(b) \/ WritePinned(b)

\* What they change.
LEMMA InPlaceSteps ==
    ASSUME NEW b \in Buffers, InPlaceWrite(b)
    PROVE  /\ metal' = metal
           /\ bytes' = [bytes EXCEPT ![metal[b]] = writes + 1]
           /\ shadow' = [shadow EXCEPT ![b] = writes + 1]
BY DEF InPlaceWrite, WriteUnread, WriteUnrenamed, WriteAfterFinish, WriteAfterTimeout,
       WritePinned, InPlace, ToShadow

\* The writes that replace the Metal buffer.
LEMMA ReplacingSteps ==
    ASSUME TypeOK, Kept, NEW b \in Buffers, WriteRenaming(b) \/ Respecify(b)
    PROVE  /\ \E a : /\ Unused(a)
                     /\ metal' = [metal EXCEPT ![b] = a]
                     /\ bytes' = [bytes EXCEPT ![a] = writes + 1]
           /\ shadow' = [shadow EXCEPT ![b] = writes + 1]
<1>1. shadow' = [shadow EXCEPT ![b] = writes + 1]
  BY DEF WriteRenaming, Respecify, ToShadow
<1> QED
  BY <1>1, RenamingUnused, RespecifyUnused

\* Objects keep Metal buffers of their own, which hold what was written.
LEMMA ObjectsKept ==
    ASSUME TypeOK, Kept, Apart, MetalMatchesShadow, [Next]_vars
    PROVE  Apart' /\ MetalMatchesShadow'
<1>0. /\ metal \in [Buffers -> Allocations] /\ DOMAIN bytes = Allocations
      /\ DOMAIN shadow = Buffers
  BY DEF TypeOK
<1>1. ASSUME UNCHANGED <<shadow, metal, bytes>>
      PROVE  Apart' /\ MetalMatchesShadow'
  BY <1>1 DEF Apart, MetalMatchesShadow
<1>2. ASSUME NEW b \in Buffers, InPlaceWrite(b)
      PROVE  Apart' /\ MetalMatchesShadow'
  BY <1>0, <1>2, InPlaceSteps DEF Apart, MetalMatchesShadow
<1>3. ASSUME NEW b \in Buffers, WriteRenaming(b) \/ Respecify(b)
      PROVE  Apart' /\ MetalMatchesShadow'
  <2>1. PICK a : /\ Unused(a)
                 /\ metal' = [metal EXCEPT ![b] = a]
                 /\ bytes' = [bytes EXCEPT ![a] = writes + 1]
    BY <1>3, ReplacingSteps
  <2>2. shadow' = [shadow EXCEPT ![b] = writes + 1]
    BY <1>3, ReplacingSteps
  <2> QED
    BY <1>0, <2>1, <2>2 DEF Unused, Apart, MetalMatchesShadow
<1> QED
  BY <1>1, <1>2, <1>3, QuietSteps DEF Next, InPlaceWrite

\* What draws refer to stays theirs.
LEMMA OwnedKept ==
    ASSUME TypeOK, Kept, Apart, Owned, [Next]_vars
    PROVE  Owned'
<1>0. metal \in [Buffers -> Allocations]
  BY DEF TypeOK
<1>1. ASSUME NEW b \in Buffers, DrawSerial(b) \/ DrawRotated(b) \/ DrawDeferred(b)
      PROVE  Owned'
  <2>1. metal' = metal /\ Refs' \subseteq Refs \cup {Reference(b)}
    BY <1>1, DrawRefs, QuietSteps
  <2>2. Reference(b).buffer = b /\ Reference(b).alloc = metal[b]
    BY DEF Reference
  <2> QED
    BY <2>1, <2>2 DEF Owned, Apart
<1>2. ASSUME metal' = metal, Refs' \subseteq Refs
      PROVE  Owned'
  BY <1>2 DEF Owned
<1>3. ASSUME NEW b \in Buffers, InPlaceWrite(b)
      PROVE  Owned'
  BY <1>2, <1>3, InPlaceSteps, OtherRefs DEF InPlaceWrite
<1>4. ASSUME NEW b \in Buffers, WriteRenaming(b) \/ Respecify(b)
      PROVE  Owned'
  <2>1. PICK a : Unused(a) /\ metal' = [metal EXCEPT ![b] = a]
    BY <1>4, ReplacingSteps
  <2>2. Refs' \subseteq Refs
    BY <1>4, OtherRefs
  <2> QED
    BY <1>0, <2>1, <2>2 DEF Unused, Owned
<1>5. CASE \/ Boundary \/ Commit \/ Separate \/ GpuFinish
           \/ \E i \in 1 .. MaxSubmits : RecordCompletion(i)
           \/ UNCHANGED vars
  BY <1>2, <1>5, QuietSteps, OtherRefs
<1> QED
  BY <1>1, <1>3, <1>4, <1>5 DEF Next, InPlaceWrite

\* What deferred draws refer to is kept for them, and not longer.
LEMMA KeptKept ==
    ASSUME TypeOK, Kept, Owned, [Next]_vars
    PROVE  Kept'
<1>0. /\ metal \in [Buffers -> Allocations] /\ isOpen \in BOOLEAN
      /\ \A r \in batch : r.buffer \in Buffers
  BY RefsTyped DEF TypeOK, Refs
<1>1. ASSUME batch' = {}, keepalives' = {}, ~isOpen' => open' = {}
      PROVE  Kept'
  BY <1>1 DEF Kept
<1>2. ASSUME UNCHANGED <<metal, batch, keepalives, isOpen, open>>
      PROVE  Kept'
  BY <1>2 DEF Kept
<1>3. ASSUME FlushBatch
      PROVE  Kept'
  BY <1>1, <1>3 DEF FlushBatch, Kept
<1>4. ASSUME NEW b \in Buffers, DrawSerial(b) \/ DrawRotated(b)
      PROVE  Kept'
  BY <1>1, <1>4 DEF DrawSerial, DrawRotated
<1>5. ASSUME NEW b \in Buffers, DrawDeferred(b)
      PROVE  Kept'
  BY <1>5 DEF DrawDeferred, current, Reference, Kept
<1>6. ASSUME NEW b \in Buffers, WriteUnread(b) \/ WriteUnrenamed(b)
      PROVE  Kept'
  BY <1>2, <1>6 DEF WriteUnread, WriteUnrenamed, InPlace, deferred, current
<1>7. ASSUME NEW b \in Buffers, WriteRenaming(b)
      PROVE  Kept'
  <2>1. PICK a : metal' = [metal EXCEPT ![b] = a]
    BY <1>7 DEF WriteRenaming
  <2>2. /\ UNCHANGED <<batch, isOpen, open>>
        /\ keepalives' = IF batch = {} THEN keepalives ELSE keepalives \cup {metal[b]}
    BY <1>7 DEF WriteRenaming, current
  <2>3. ASSUME NEW r \in batch
        PROVE  r.alloc = metal'[r.buffer] \/ r.alloc \in keepalives'
    BY <1>0, <2>1, <2>2 DEF Kept
  <2> QED
    BY <2>2, <2>3 DEF Kept
<1>8. ASSUME NEW b \in Buffers, WriteAfterFinish(b) \/ WriteAfterTimeout(b)
      PROVE  Kept'
  BY <1>1, <1>8 DEF WriteAfterFinish, WriteAfterTimeout
<1>9. ASSUME NEW b \in Buffers, WritePinned(b) \/ Respecify(b)
      PROVE  Kept'
  BY <1>3, <1>9 DEF WritePinned, Respecify
<1>10. CASE Boundary
  BY <1>3, <1>10 DEF Boundary
<1>11. CASE Commit
  BY <1>1, <1>11 DEF Commit
<1>12. CASE Separate \/ GpuFinish
  BY <1>2, <1>12 DEF Separate, GpuFinish, objects, deferred, current
<1>13. ASSUME NEW i \in 1 .. MaxSubmits, RecordCompletion(i)
       PROVE  Kept'
  BY <1>2, <1>13 DEF RecordCompletion, objects, deferred, current
<1>14. CASE UNCHANGED vars
  BY <1>2, <1>14 DEF vars
<1> QED
  BY <1>4, <1>5, <1>6, <1>7, <1>8, <1>9, <1>10, <1>11, <1>12, <1>13, <1>14 DEF Next

-----------------------------------------------------------------------------
(* The stamps.                                                             *)

\* The stamp of an object is at least the index of every command buffer with a
\* draw that refers to its present Metal buffer: the one a deferred draw, or the
\* open command buffer, will get, and the one a committed command buffer has.
Stamped ==
    Orderly =>
        /\ \A r \in batch \cup open :
             r.alloc = metal[r.buffer] => stamp[r.buffer] >= submitted + 1
        /\ \A i \in 1 .. Len(queue) : \A r \in queue[i] :
             r.alloc = metal[r.buffer] => stamp[r.buffer] >= submitted - Len(queue) + i

\* Such an object is live.
LEMMA StampedLive ==
    ASSUME TypeOK, Counted, Stamped, Orderly,
           NEW r \in Refs, r.alloc = metal[r.buffer]
    PROVE  Live(r.buffer)
<1>1. /\ completed <= submitted - Len(queue) /\ completed \in Nat
      /\ Len(queue) \in Nat /\ submitted \in Nat
      /\ r.buffer \in Buffers /\ stamp[r.buffer] \in Nat
  BY CompletedBehindQueue, RefsTyped DEF TypeOK
<1>2. CASE r \in batch \cup open
  <2>1. stamp[r.buffer] >= submitted + 1
    BY <1>2 DEF Stamped
  <2> QED
    BY <1>1, <2>1 DEF Live
<1>3. CASE r \in InQueue
  <2>1. PICK i \in 1 .. Len(queue) : r \in queue[i]
    BY <1>3 DEF InQueue
  <2>2. stamp[r.buffer] >= submitted - Len(queue) + i
    BY <2>1 DEF Stamped
  <2> QED
    BY <1>1, <2>1, <2>2 DEF Live
<1> QED
  BY <1>2, <1>3 DEF Refs

\* A commit of everything that is open gives it the index it was stamped with.
LEMMA StampedCommit ==
    ASSUME TypeOK, Stamped, UNCHANGED <<metal, stamp, workload>>,
           NEW s \in SUBSET (open \cup batch), Submit(s), batch' = {}, open' = {}
    PROVE  Stamped'
<1>1. /\ queue' = Append(queue, s) /\ submitted' = submitted + 1
      /\ queue \in Seq(SUBSET References) /\ submitted \in Nat
      /\ s \in SUBSET References
  BY DEF Submit, TypeOK
<1>2. /\ Len(queue') = Len(queue) + 1 /\ Len(queue) \in Nat
      /\ \A i \in 1 .. Len(queue) : queue'[i] = queue[i]
      /\ queue'[Len(queue) + 1] = s
  BY <1>1
<1>3. ASSUME Orderly, NEW i \in 1 .. Len(queue'), NEW r \in queue'[i],
             r.alloc = metal[r.buffer]
      PROVE  stamp[r.buffer] >= submitted' - Len(queue') + i
  <2>1. submitted' - Len(queue') = submitted - Len(queue)
    BY <1>1, <1>2
  <2>2. CASE i \in 1 .. Len(queue)
    BY <1>2, <1>3, <2>1, <2>2 DEF Stamped
  <2>3. CASE i = Len(queue) + 1
    <3>1. r \in batch \cup open
      BY <1>2, <1>3, <2>3
    <3>2. stamp[r.buffer] >= submitted + 1
      BY <1>3, <3>1 DEF Stamped
    <3> QED
      BY <1>1, <1>2, <2>1, <2>3, <3>2
  <2> QED
    BY <1>2, <1>3, <2>2, <2>3
<1> QED
  BY <1>3 DEF Stamped, Orderly

\* A stamp that is raised, or a Metal buffer that is replaced by an unused one,
\* is no harm.
LEMMA StampedDraw ==
    ASSUME TypeOK, Stamped, NEW b \in Buffers, metal' = metal, workload' = workload,
           stamp' = [stamp EXCEPT ![b] = OpenIndex],
           batch' \cup open' \subseteq batch \cup open \cup {Reference(b)},
           UNCHANGED <<queue, submitted>>
    PROVE  Stamped'
<1>1. /\ \A c \in Buffers : stamp[c] \in Nat /\ stamp[c] <= submitted + 1
      /\ submitted \in Nat /\ Len(queue) \in Nat
      /\ stamp \in [Buffers -> 0 .. submitted + 1]
  BY DEF TypeOK
<1>2. \A r \in Refs : r.buffer \in Buffers
  BY RefsTyped
<1>3. \A c \in Buffers : stamp'[c] >= stamp[c] /\ stamp'[c] \in Nat
  BY <1>1 DEF OpenIndex
<1>4. stamp'[b] = submitted + 1
  BY <1>1 DEF OpenIndex
<1>5. ASSUME Orderly, NEW r \in batch' \cup open', r.alloc = metal[r.buffer]
      PROVE  stamp'[r.buffer] >= submitted + 1
  <2>1. CASE r \in batch \cup open
    <3>1. stamp[r.buffer] >= submitted + 1 /\ r.buffer \in Buffers
      BY <1>2, <1>5, <2>1 DEF Stamped, Refs
    <3> QED
      BY <1>1, <1>3, <3>1
  <2>2. CASE r = Reference(b)
    BY <1>1, <1>4, <2>2 DEF Reference
  <2> QED
    BY <1>5, <2>1, <2>2
<1>6. ASSUME Orderly, NEW i \in 1 .. Len(queue), NEW r \in queue[i],
             r.alloc = metal[r.buffer]
      PROVE  stamp'[r.buffer] >= submitted - Len(queue) + i
  <2>1. stamp[r.buffer] >= submitted - Len(queue) + i
    BY <1>6 DEF Stamped
  <2>2. r.buffer \in Buffers
    BY <1>2, <1>6 DEF Refs, InQueue
  <2> QED
    BY <1>1, <1>3, <2>1, <2>2
<1> QED
  BY <1>5, <1>6 DEF Stamped, Orderly

LEMMA StampedReplaced ==
    ASSUME TypeOK, Stamped, NEW b \in Buffers, NEW a, Unused(a),
           metal' = [metal EXCEPT ![b] = a], workload' = workload,
           \A c \in Buffers : c # b => stamp'[c] = stamp[c],
           batch' \cup open' \subseteq batch \cup open, UNCHANGED <<queue, submitted>>
    PROVE  Stamped'
<1>1. \A r \in Refs : r.alloc = metal'[r.buffer] =>
        r.buffer # b /\ r.buffer \in Buffers /\ r.alloc = metal[r.buffer]
           /\ stamp'[r.buffer] = stamp[r.buffer]
  BY RefsTyped DEF Unused, TypeOK
<1>2. ASSUME Orderly, NEW r \in batch' \cup open', r.alloc = metal'[r.buffer]
      PROVE  stamp'[r.buffer] >= submitted + 1
  <2>1. r \in Refs /\ r \in batch \cup open
    BY <1>2 DEF Refs
  <2> QED
    BY <1>1, <1>2, <2>1 DEF Stamped
<1>3. ASSUME Orderly, NEW i \in 1 .. Len(queue), NEW r \in queue[i],
             r.alloc = metal'[r.buffer]
      PROVE  stamp'[r.buffer] >= submitted - Len(queue) + i
  <2>1. r \in Refs
    BY <1>3 DEF Refs, InQueue
  <2> QED
    BY <1>1, <1>3, <2>1 DEF Stamped
<1> QED
  BY <1>2, <1>3 DEF Stamped, Orderly

\* Nothing that the stamps are about changes, but that the batch is encoded.
LEMMA StampedFlush ==
    ASSUME Stamped, UNCHANGED <<metal, stamp, workload, queue, submitted>>,
           batch' \cup open' \subseteq batch \cup open
    PROVE  Stamped'
BY DEF Stamped, Orderly

\* The stamps stay right through every step.
LEMMA StampedKept ==
    ASSUME TypeOK, Counted, Kept, Stamped, [Next]_vars
    PROVE  Stamped'
<1>0. /\ queue \in Seq(SUBSET References) /\ Len(queue) \in Nat /\ submitted \in Nat
      /\ \A c \in Buffers : DOMAIN stamp = Buffers
  BY DEF TypeOK
<1>1. ASSUME NEW b \in Buffers, DrawSerial(b) \/ DrawDeferred(b)
      PROVE  Stamped'
  BY <1>1, StampedDraw DEF DrawSerial, DrawDeferred, submission, current
<1>2. ASSUME NEW b \in Buffers, DrawRotated(b)
      PROVE  Stamped'
  BY <1>2 DEF DrawRotated, Stamped, Orderly
<1>3. ASSUME NEW b \in Buffers, WriteUnread(b) \/ WritePinned(b)
      PROVE  Stamped'
  <2>1. metal' = metal
    BY <1>3, InPlaceSteps DEF InPlaceWrite
  <2> QED
    BY <1>3, <2>1, StampedFlush
       DEF WriteUnread, WritePinned, FlushBatch, deferred, current, submission
<1>4. ASSUME NEW b \in Buffers, WriteRenaming(b) \/ Respecify(b)
      PROVE  Stamped'
  <2>1. PICK a : Unused(a) /\ metal' = [metal EXCEPT ![b] = a]
    BY <1>4, ReplacingSteps
  <2>2. /\ \A c \in Buffers : c # b => stamp'[c] = stamp[c]
        /\ UNCHANGED <<queue, submitted, workload>>
        /\ batch' \cup open' \subseteq batch \cup open
    BY <1>0, <1>4 DEF WriteRenaming, Respecify, FlushBatch, current, submission
  <2> QED
    BY <2>1, <2>2, StampedReplaced
<1>5. ASSUME NEW b \in Buffers, WriteAfterFinish(b)
      PROVE  Stamped'
  BY <1>5 DEF WriteAfterFinish, Stamped
<1>12. ASSUME NEW b \in Buffers, WriteAfterTimeout(b) \/ WriteUnrenamed(b)
       PROVE  Stamped'
  BY <1>12 DEF WriteAfterTimeout, WriteUnrenamed, Stamped, Orderly
<1>6. CASE Boundary
  BY <1>6, StampedFlush DEF Boundary, FlushBatch, objects, submission
<1>7. CASE Commit
  BY <1>7, StampedCommit DEF Commit, objects
<1>8. CASE Separate
  <2>1. CASE ~isOpen /\ batch = {}
    <3>1. open = {}
      BY <2>1 DEF Kept
    <3> QED
      BY <1>8, <2>1, <3>1, StampedCommit DEF Separate, objects, deferred, current
  <2>2. CASE "separate" \in workload.commits
    BY <1>8, <2>2 DEF Separate, Stamped, Orderly
  <2> QED
    BY <1>8, <2>1, <2>2 DEF Separate
<1>9. CASE GpuFinish
  <2>1. /\ queue' = Tail(queue) /\ queue # <<>>
        /\ UNCHANGED <<metal, stamp, batch, open, submitted, workload>>
    BY <1>9 DEF GpuFinish, objects, deferred, current
  <2>2. /\ Len(queue') = Len(queue) - 1
        /\ \A i \in 1 .. Len(queue) - 1 : queue'[i] = queue[i + 1] /\ i + 1 \in 1 .. Len(queue)
    BY <1>0, <2>1
  <2>3. \A i \in 1 .. Len(queue') :
          submitted' - Len(queue') + i = submitted - Len(queue) + (i + 1)
    BY <1>0, <2>1, <2>2
  <2> QED
    BY <2>1, <2>2, <2>3 DEF Stamped, Orderly
<1>10. ASSUME NEW i \in 1 .. MaxSubmits, RecordCompletion(i)
       PROVE  Stamped'
  BY <1>10, StampedFlush DEF RecordCompletion, objects, deferred, current
<1>11. CASE UNCHANGED vars
  BY <1>11, StampedFlush DEF vars
<1> QED
  BY <1>1, <1>2, <1>3, <1>4, <1>5, <1>6, <1>7, <1>8, <1>9, <1>10, <1>11, <1>12 DEF Next

-----------------------------------------------------------------------------
(* What draws are to read.                                                 *)

\* No step changes what a draw that has not executed is to read.
LEMMA ContentsKept ==
    ASSUME TypeOK, Counted, Kept, Owned, Stamped, MetalMatchesShadow, DrawTimeContents,
           [Next]_vars
    PROVE  DrawTimeContents'
<1>0. /\ DOMAIN bytes = Allocations /\ metal \in [Buffers -> Allocations]
      /\ \A r \in Refs : r.buffer \in Buffers /\ r.alloc \in Allocations
  BY RefsTyped DEF TypeOK
<1>1. workload' = workload
  BY DEF Next, DrawSerial, DrawRotated, DrawDeferred, WriteUnread, WriteRenaming,
         WriteAfterFinish, WriteAfterTimeout, WriteUnrenamed, WritePinned, Respecify,
         Boundary, Commit, Separate, GpuFinish, RecordCompletion, vars
<1> SUFFICES ASSUME Orderly, NEW r \in Refs',
                    workload.kind[r.buffer] # "pinned"
             PROVE  bytes'[r.alloc] = r.contents
  BY <1>1 DEF DrawTimeContents, DrawsFindContents, Orderly, Refs
<1>2. r \in Refs => bytes[r.alloc] = r.contents
  BY <1>1 DEF DrawTimeContents, DrawsFindContents, Refs
<1>3. ASSUME NEW b \in Buffers, DrawSerial(b) \/ DrawRotated(b) \/ DrawDeferred(b)
      PROVE  bytes'[r.alloc] = r.contents
  <2>1. bytes' = bytes /\ r \in Refs \cup {Reference(b)}
    BY <1>3, DrawRefs, QuietSteps
  <2>2. CASE r = Reference(b)
    BY <2>1, <2>2 DEF Reference, MetalMatchesShadow
  <2> QED
    BY <1>2, <2>1, <2>2
<1>4. ASSUME NEW b \in Buffers, WriteUnread(b)
      PROVE  bytes'[r.alloc] = r.contents
  <2>1. r \in Refs /\ bytes' = [bytes EXCEPT ![metal[b]] = writes + 1]
    BY <1>4, OtherRefs, InPlaceSteps DEF InPlaceWrite
  <2>2. r.alloc # metal[b]
    <3> SUFFICES ASSUME r.alloc = metal[b]
                 PROVE  FALSE
      OBVIOUS
    <3>1. r.buffer = b
      BY <2>1 DEF Owned
    <3>2. Live(b)
      BY <2>1, <3>1, StampedLive
    <3> QED
      BY <1>4, <3>2 DEF WriteUnread
  <2> QED
    BY <1>0, <1>2, <2>1, <2>2
<1>5. ASSUME NEW b \in Buffers, WriteAfterFinish(b)
      PROVE  bytes'[r.alloc] = r.contents
  <2>1. batch' = {} /\ open' = {} /\ queue' = <<>>
    BY <1>5 DEF WriteAfterFinish
  <2>2. Refs' = {}
    BY <2>1 DEF Refs, InQueue
  <2> QED
    BY <2>2
<1>6. ASSUME NEW b \in Buffers, WritePinned(b)
      PROVE  bytes'[r.alloc] = r.contents
  <2>1. r \in Refs /\ bytes' = [bytes EXCEPT ![metal[b]] = writes + 1]
    BY <1>6, OtherRefs, InPlaceSteps DEF InPlaceWrite
  <2>2. r.alloc # metal[b]
    BY <1>6, <2>1 DEF Owned, WritePinned
  <2> QED
    BY <1>0, <1>2, <2>1, <2>2
<1>7. ASSUME NEW b \in Buffers, WriteRenaming(b) \/ Respecify(b)
      PROVE  bytes'[r.alloc] = r.contents
  <2>1. PICK a : Unused(a) /\ bytes' = [bytes EXCEPT ![a] = writes + 1]
    BY <1>7, ReplacingSteps
  <2>2. r \in Refs
    BY <1>7, OtherRefs
  <2> QED
    BY <1>0, <1>2, <2>1, <2>2 DEF Unused
<1>8. CASE \/ Boundary \/ Commit \/ Separate \/ GpuFinish
           \/ \E i \in 1 .. MaxSubmits : RecordCompletion(i)
           \/ UNCHANGED vars
  BY <1>2, <1>8, QuietSteps, OtherRefs
<1>9. ASSUME NEW b \in Buffers, WriteAfterTimeout(b) \/ WriteUnrenamed(b)
      PROVE  FALSE
  BY <1>9 DEF WriteAfterTimeout, WriteUnrenamed, Orderly
<1> QED
  BY <1>3, <1>4, <1>5, <1>6, <1>7, <1>8, <1>9 DEF Next

-----------------------------------------------------------------------------
\* The inductive invariant.
RenameInv ==
    /\ Apart
    /\ MetalMatchesShadow
    /\ Owned
    /\ Kept
    /\ Stamped
    /\ DrawTimeContents

\* It holds at the start, when no draw has been issued.
LEMMA InitRenameInv ==
    ASSUME Init
    PROVE  RenameInv
<1>1. Refs = {} /\ batch = {} /\ open = {} /\ keepalives = {} /\ Len(queue) = 0
  BY DEF Init, Refs, InQueue
<1>2. Apart
  BY RenameAssumption DEF Init, Apart
<1>3. MetalMatchesShadow
  BY RenameAssumption DEF Init, MetalMatchesShadow
<1>4. Owned /\ Kept /\ Stamped /\ DrawTimeContents
  BY <1>1 DEF Owned, Kept, Stamped, DrawTimeContents, DrawsFindContents, Refs
<1> QED
  BY <1>2, <1>3, <1>4 DEF RenameInv

LEMMA NextRenameInv ==
    ASSUME TypeInv, RenameInv, [Next]_vars
    PROVE  RenameInv'
<1>1. Apart' /\ MetalMatchesShadow'
  BY ObjectsKept DEF TypeInv, RenameInv
<1>2. Owned' /\ Kept'
  BY OwnedKept, KeptKept DEF TypeInv, RenameInv
<1>3. Stamped'
  BY StampedKept DEF TypeInv, RenameInv
<1>4. DrawTimeContents'
  BY ContentsKept DEF TypeInv, RenameInv
<1> QED
  BY <1>1, <1>2, <1>3, <1>4 DEF RenameInv

\* The inductive invariant is invariant.
THEOREM SpecRenameInv == Spec => []RenameInv
BY InitRenameInv, NextRenameInv, SpecTypeInv, PTL DEF Spec

\* Every draw finds the contents it was issued with, as long as no commit comes
\* between its binding and its own, no drain times out and no allocation fails;
\* whatever happens, what a deferred draw refers to is held for it, and a donated
\* buffer no longer than for its batch.
THEOREM SpecDrawsUndisturbed == Spec => []DrawsUndisturbed
<1>1. TypeInv /\ RenameInv => DrawsUndisturbed
  <2> SUFFICES ASSUME TypeInv, RenameInv
               PROVE  DonationsExact
    BY DEF DrawsUndisturbed, RenameInv
  <2>1. ASSUME NEW r \in batch
        PROVE  r.alloc \in Held
    <3>1. r.buffer \in Buffers
      BY RefsTyped DEF TypeInv, Refs
    <3> QED
      BY <3>1 DEF RenameInv, Kept, Held
  <2> QED
    BY <2>1 DEF RenameInv, Kept, DonationsExact
<1> QED
  BY <1>1, SpecTypeInv, SpecRenameInv, PTL

\* Whatever the writes and the draws, the present Metal buffer of an object holds
\* what the application has written into the object last.
THEOREM SpecMetalMatchesShadow == Spec => []MetalMatchesShadow
<1>1. RenameInv => MetalMatchesShadow
  BY DEF RenameInv
<1> QED
  BY <1>1, SpecRenameInv, PTL

=============================================================================
