----------------------- MODULE CommandSubmissionProofs -----------------------
(***************************************************************************)
(* Proofs about CommandSubmission for every bound, reserve, number of      *)
(* buffers, set of lease variables and set of objects, with and without    *)
(* timeouts, failed allocations and the ring fallback.                     *)
(***************************************************************************)
EXTENDS CommandSubmission, TLAPS, FiniteSetTheorems

-----------------------------------------------------------------------------
(* The inductive invariant, in named parts.                                *)

\* A lease that has a command buffer owns its token, and nothing of it has
\* been handed on; one that has none any more has handed everything on.
LeaseShape ==
    \A s \in Slots :
        /\ lease[s].buf <=> lease[s].owns
        /\ lease[s].id <= allocated
        /\ lease[s].owns => lease[s].id # 0 /\ ~lease[s].tokenMoved
                            /\ ~lease[s].retainedMoved
        /\ lease[s].id # 0 /\ ~lease[s].owns =>
             lease[s].tokenMoved /\ lease[s].retainedMoved

\* The buffer of an open lease is neither committed nor given up.
OpenUncommitted ==
    \A s \in Slots : lease[s].owns =>
        /\ index[lease[s].id] = 0
        /\ ~released[lease[s].id]

\* Different lease variables hold different command buffers.
LeasesDistinct ==
    \A s, t \in Slots : lease[s].id # 0 /\ lease[s].id = lease[t].id => s = t

\* Nothing has happened to a buffer that does not exist yet.
UnbornUntouched ==
    \A b \in Buffers : b > allocated => index[b] = 0 /\ ~released[b]

\* A handler runs for committed buffers only, and the token of the buffer
\* has been released exactly if its handler has passed that point.
HandlerShape ==
    \A b \in Buffers :
        /\ handler[b] # "none" => index[b] # 0
        /\ index[b] # 0 /\ handler[b] \in {"none", "recorded"} => ~released[b]
        /\ handler[b] \in {"uncounted", "signalled", "done"} => released[b]

\* What the GL thread knows while it is inside a call.
InsideCall ==
    /\ at \in {"token", "count", "alloc"} => ~lease[slot].owns /\ allocated < MaxBuffers
    /\ at = "dispatch" => slot # Current /\ lease[slot].owns
    /\ at = "drain" => \A s \in Slots : ~lease[s].buf

Structure ==
    /\ TypeOK
    /\ LeaseShape
    /\ OpenUncommitted
    /\ LeasesDistinct
    /\ UnbornUntouched
    /\ HandlerShape
    /\ InsideCall

IInv == Structure /\ TokensConserved

-----------------------------------------------------------------------------
\* The sets TokensConserved counts are finite.
LEMMA TokenSetsFinite ==
    ASSUME TypeOK
    PROVE  /\ IsFiniteSet(Holders) /\ Cardinality(Holders) \in Nat
           /\ IsFiniteSet(Counted) /\ Cardinality(Counted) \in Nat
<1>1. allocated \in Nat
  BY SubmissionAssumption DEF TypeOK
<1>2. IsFiniteSet(1 .. allocated)
  BY <1>1, FS_Interval
<1>3. Holders \in SUBSET (1 .. allocated) /\ Counted \in SUBSET (1 .. allocated)
  BY DEF Holders, Counted
<1>4. IsFiniteSet(Holders) /\ IsFiniteSet(Counted)
  BY <1>2, <1>3, FS_Subset
<1>5. QED
  BY <1>4, FS_CardinalityType

LEMMA InitInvariant == Init => IInv
<1> SUFFICES ASSUME Init PROVE IInv
  OBVIOUS
<1> USE SubmissionAssumption DEF Init
<1>1. TypeOK
  <2>1. NoLease \in Leases
    BY DEF NoLease, Leases
  <2>2. /\ sem \in Nat /\ acquired \in 0 .. Bound
        /\ allocated \in 0 .. MaxBuffers /\ awaited \in 0 .. MaxBuffers
    OBVIOUS
  <2>3. slot \in Slots /\ handler \in [Buffers -> Stages]
    BY DEF Stages
  <2>4. QED
    BY <2>1, <2>2, <2>3 DEF TypeOK
<1>2. LeaseShape /\ OpenUncommitted /\ LeasesDistinct
  <2>1. \A s \in Slots : /\ lease[s].id = 0 /\ ~lease[s].buf /\ ~lease[s].owns
                        /\ ~lease[s].tokenMoved /\ ~lease[s].retainedMoved
    BY DEF NoLease
  <2>2. QED
    BY <2>1 DEF LeaseShape, OpenUncommitted, LeasesDistinct
<1>3. UnbornUntouched /\ HandlerShape /\ InsideCall
  BY DEF UnbornUntouched, HandlerShape, InsideCall
<1>4. Holders = {} /\ Counted = {}
  BY DEF Holders, Counted
<1>5. TokensConserved
  BY <1>4, FS_EmptySet DEF TokensConserved, InHand, CountInHand
<1>6. QED
  BY <1>1, <1>2, <1>3, <1>5 DEF IInv, Structure

-----------------------------------------------------------------------------
(* What the steps that commit and give up leases change.                   *)

\* Committing an open lease: the lease hands everything on and its buffer
\* gets the next index.
LEMMA CommitFacts ==
    ASSUME IInv, NEW s \in Slots, Open(s), CommitLease(s)
    PROVE  /\ lease[s].id \in 1 .. allocated /\ lease[s].id \in Buffers
           /\ index[lease[s].id] = 0 /\ ~released[lease[s].id]
           /\ submitted' \in Nat /\ submitted' # 0
           /\ index' = [index EXCEPT ![lease[s].id] = submitted']
           /\ lease' = [lease EXCEPT ![s] = SpentLease(lease[s].id)]
           /\ index' \in [Buffers -> Nat] /\ lease' \in [Slots -> Leases]
           /\ drained' = FALSE
<1> USE SubmissionAssumption DEF IInv, Structure
<1>1. lease[s] \in Leases /\ lease[s].owns /\ submitted \in Nat
      /\ index \in [Buffers -> Nat] /\ lease \in [Slots -> Leases]
      /\ allocated \in 0 .. MaxBuffers
  BY DEF TypeOK, Open
<1>2. lease[s].id \in 1 .. allocated /\ lease[s].id \in Buffers
  BY <1>1 DEF LeaseShape, Leases, Buffers
<1>3. index[lease[s].id] = 0 /\ ~released[lease[s].id]
  BY <1>1 DEF OpenUncommitted
<1>4. submitted' = submitted + 1 /\ drained' = FALSE
      /\ index' = [index EXCEPT ![lease[s].id] = submitted']
  BY DEF CommitLease
<1>5. lease' = [lease EXCEPT ![s] = SpentLease(lease[s].id)]
  BY DEF CommitLease
<1>6. index' \in [Buffers -> Nat] /\ lease' \in [Slots -> Leases]
  BY <1>1, <1>2, <1>4, <1>5 DEF Leases, SpentLease
<1>7. QED
  BY <1>1, <1>2, <1>3, <1>4, <1>5, <1>6

\* Replacing a lease: only one that still owns its token gives it back.
LEMMA ReplaceFacts ==
    ASSUME IInv, NEW s \in Slots, NEW n \in Leases, Replace(s, n)
    PROVE  /\ lease' = [lease EXCEPT ![s] = n] /\ lease' \in [Slots -> Leases]
           /\ released' \in [Buffers -> BOOLEAN]
           /\ pinned' \in [Buffers -> SUBSET Objects] /\ alive' \subseteq Objects
           /\ lease[s].owns =>
                /\ lease[s].id \in 1 .. allocated /\ lease[s].id \in Buffers
                /\ index[lease[s].id] = 0 /\ ~released[lease[s].id]
                /\ released' = [released EXCEPT ![lease[s].id] = TRUE]
                /\ inFlight' = inFlight - 1 /\ sem' = sem + 1
           /\ ~lease[s].owns =>
                UNCHANGED <<released, inFlight, sem>>
<1> USE SubmissionAssumption DEF IInv, Structure
<1>1. lease[s] \in Leases /\ lease \in [Slots -> Leases]
      /\ released \in [Buffers -> BOOLEAN] /\ allocated \in 0 .. MaxBuffers
      /\ pinned \in [Buffers -> SUBSET Objects] /\ alive \subseteq Objects
  BY DEF TypeOK
<1>2. lease' = [lease EXCEPT ![s] = n] /\ lease' \in [Slots -> Leases]
  BY <1>1 DEF Replace
<1>3. lease[s].id # 0 => lease[s].id \in 1 .. allocated /\ lease[s].id \in Buffers
  BY <1>1 DEF LeaseShape, Leases, Buffers
<1>4. released' \in [Buffers -> BOOLEAN]
  BY <1>1, <1>3 DEF Replace
<1>5. pinned' \in [Buffers -> SUBSET Objects] /\ alive' \subseteq Objects
  BY <1>1, <1>3 DEF Replace
<1>6. ASSUME lease[s].owns
      PROVE  /\ lease[s].id # 0 /\ ~lease[s].tokenMoved
             /\ index[lease[s].id] = 0 /\ ~released[lease[s].id]
  BY <1>6 DEF LeaseShape, OpenUncommitted
<1>7. ASSUME lease[s].owns
      PROVE  /\ released' = [released EXCEPT ![lease[s].id] = TRUE]
             /\ inFlight' = inFlight - 1 /\ sem' = sem + 1
  BY <1>6, <1>7 DEF Replace
<1>8. ASSUME ~lease[s].owns
      PROVE  UNCHANGED <<released, inFlight, sem>>
  BY <1>8 DEF Replace
<1>9. QED
  BY <1>2, <1>3, <1>4, <1>5, <1>6, <1>7, <1>8

\* A buffer that is counted gives its token back: one token less is out.
LEMMA TokenReturned ==
    ASSUME TypeOK, NEW b \in Buffers, b \in Counted
    PROVE  /\ Cardinality(Counted \ {b}) = Cardinality(Counted) - 1
           /\ Cardinality(Holders \ {b}) = Cardinality(Holders) - 1
           /\ Cardinality(Counted) >= 1
<1>1. b \in Holders
  BY DEF Counted, Holders
<1>2. Cardinality(Counted \ {b}) = Cardinality(Counted) - 1
      /\ Cardinality(Holders \ {b}) = Cardinality(Holders) - 1
  BY <1>1, TokenSetsFinite, FS_RemoveElement
<1>3. Counted # {}
  OBVIOUS
<1>4. QED
  BY <1>2, <1>3, TokenSetsFinite, FS_EmptySet

-----------------------------------------------------------------------------
(* One lemma per action: it keeps the invariant.                           *)

\* A commit keeps the shape of leases and handlers, and moves no token.
LEMMA CommitKeepsShape ==
    ASSUME IInv, NEW s \in Slots, Open(s), CommitLease(s),
           UNCHANGED <<allocated, released, handler>>
    PROVE  /\ LeaseShape' /\ OpenUncommitted' /\ LeasesDistinct'
           /\ UnbornUntouched' /\ HandlerShape'
           /\ Holders' = Holders /\ Counted' = Counted
<1> USE SubmissionAssumption DEF IInv, Structure
<1> DEFINE b == lease[s].id
<1>1. /\ b \in 1 .. allocated /\ b \in Buffers /\ index[b] = 0 /\ ~released[b]
      /\ index' = [index EXCEPT ![b] = submitted'] /\ submitted' # 0
      /\ lease' = [lease EXCEPT ![s] = SpentLease(b)]
  BY CommitFacts
<1>2. lease \in [Slots -> Leases] /\ index \in [Buffers -> Nat]
      /\ allocated \in 0 .. MaxBuffers
  BY DEF TypeOK
<1>3. /\ lease'[s] = SpentLease(b)
      /\ \A t \in Slots : t # s => lease'[t] = lease[t]
      /\ lease'[s].id = b
      /\ \A t \in Slots : lease'[t].id = lease[t].id
  BY <1>1, <1>2 DEF SpentLease
<1>4. LeaseShape'
  BY <1>1, <1>2, <1>3 DEF LeaseShape, SpentLease
<1>5. LeasesDistinct'
  BY <1>3 DEF LeasesDistinct
<1>6. OpenUncommitted'
  <2> SUFFICES ASSUME NEW t \in Slots, lease'[t].owns
               PROVE  index'[lease[t].id] = 0 /\ ~released[lease[t].id]
    BY <1>3 DEF OpenUncommitted
  <2>1. t # s
    BY <1>3 DEF SpentLease
  <2>2. lease[t].owns
    BY <2>1, <1>3
  <2>3. lease[t].id # b
    BY <2>1, <1>1 DEF LeasesDistinct
  <2>4. lease[t].id \in Buffers
    BY <2>2, <1>2 DEF LeaseShape, Leases, Buffers
  <2>5. QED
    BY <2>2, <2>3, <2>4, <1>1, <1>2 DEF OpenUncommitted
<1>7. UnbornUntouched'
  BY <1>1, <1>2 DEF UnbornUntouched, Buffers
<1>8. HandlerShape'
  BY <1>1, <1>2 DEF HandlerShape
<1>9. Holders' = Holders /\ Counted' = Counted
  BY DEF Holders, Counted
<1>10. QED
  BY <1>4, <1>5, <1>6, <1>7, <1>8, <1>9

LEMMA BeginMakeKeeps ==
    ASSUME IInv, NEW s \in Slots, BeginMake(s) PROVE IInv'
<1> USE SubmissionAssumption DEF IInv, Structure
<1>1. UNCHANGED <<allocated, released, handler, sem, inFlight, completed, pinned,
                  alive, gpuDone, uses, strayed, awaited, acquired>>
      /\ at = "idle" /\ at' = "token" /\ slot' = s /\ allocated < MaxBuffers
  BY DEF BeginMake
<1>2. ~lease[s].owns
  BY DEF BeginMake, LeaseShape
<1>3. /\ LeaseShape' /\ OpenUncommitted' /\ LeasesDistinct'
      /\ UnbornUntouched' /\ HandlerShape'
      /\ Holders' = Holders /\ Counted' = Counted
      /\ submitted' \in Nat /\ index' \in [Buffers -> Nat]
      /\ lease' \in [Slots -> Leases] /\ drained' \in BOOLEAN
      /\ ~lease'[s].owns
  <2>1. CASE UnderPressure
    <3>1. CommitLease(Current) /\ Open(Current) /\ Current \in Slots
      BY <2>1 DEF BeginMake, UnderPressure
    <3>2. lease \in [Slots -> Leases]
      BY DEF TypeOK
    <3>3. lease' = [lease EXCEPT ![Current] = SpentLease(lease[Current].id)]
      BY <3>1, CommitFacts
    <3>4. ~lease'[s].owns
      BY <1>2, <3>1, <3>2, <3>3 DEF SpentLease
    <3>5. QED
      BY <1>1, <3>1, <3>4, CommitFacts, CommitKeepsShape
  <2>2. CASE ~UnderPressure
    <3>1. UNCHANGED <<submitted, index, lease, drained>>
      BY <2>2 DEF BeginMake
    <3>2. QED
      BY <1>1, <1>2, <3>1 DEF TypeOK, LeaseShape, OpenUncommitted,
         LeasesDistinct, UnbornUntouched, HandlerShape, Holders, Counted
  <2>3. QED
    BY <2>1, <2>2
<1>4. TypeOK'
  BY <1>1, <1>3 DEF TypeOK
<1>5. InsideCall'
  BY <1>1, <1>3 DEF InsideCall
<1>6. TokensConserved'
  BY <1>1, <1>3 DEF TokensConserved, InHand, CountInHand
<1>7. QED
  BY <1>3, <1>4, <1>5, <1>6

LEMMA CommitKeeps ==
    ASSUME IInv, NEW s \in Slots,
           Commit(s) \/ CommitAndWait(s) \/ (SubmitDispatch /\ s = slot)
    PROVE  IInv'
<1> USE SubmissionAssumption DEF IInv, Structure
<1>1. /\ UNCHANGED <<allocated, released, handler, sem, inFlight, completed, pinned,
                     alive, gpuDone, uses, strayed, slot, acquired>>
      /\ Open(s) /\ CommitLease(s)
      /\ at \in {"idle", "dispatch"} /\ at' \in {"idle", "completion"}
      /\ awaited' \in {awaited, lease[s].id}
  BY DEF Commit, CommitAndWait, SubmitDispatch, InsideCall, LeaseShape, Open
<1>2. /\ LeaseShape' /\ OpenUncommitted' /\ LeasesDistinct'
      /\ UnbornUntouched' /\ HandlerShape'
      /\ Holders' = Holders /\ Counted' = Counted
  BY <1>1, CommitKeepsShape
<1>3. lease[s].id \in Buffers /\ submitted' \in Nat /\ drained' = FALSE
      /\ index' \in [Buffers -> Nat] /\ lease' \in [Slots -> Leases]
  BY <1>1, CommitFacts
<1>4. awaited' \in 0 .. MaxBuffers /\ drained' \in BOOLEAN
  <2>1. awaited \in 0 .. MaxBuffers
    BY DEF TypeOK
  <2>2. lease[s].id \in 0 .. MaxBuffers
    BY <1>3 DEF Buffers
  <2>3. QED
    BY <1>1, <1>3, <2>1, <2>2
<1>5. TypeOK'
  BY <1>1, <1>3, <1>4 DEF TypeOK
<1>6. InsideCall'
  BY <1>1 DEF InsideCall
<1>7. TokensConserved'
  BY <1>1, <1>2 DEF TokensConserved, InHand, CountInHand
<1>8. QED
  BY <1>2, <1>5, <1>6, <1>7

\* Emptying a lease keeps the shapes; if it was open, its token comes back.
LEMMA DropKeepsShape ==
    ASSUME IInv, NEW s \in Slots, Replace(s, NoLease),
           UNCHANGED <<allocated, index, handler>>
    PROVE  /\ LeaseShape' /\ OpenUncommitted' /\ LeasesDistinct'
           /\ UnbornUntouched' /\ HandlerShape'
           /\ lease[s].owns => /\ lease[s].id \in Buffers /\ lease[s].id \in Counted
                               /\ Holders' = Holders \ {lease[s].id}
                               /\ Counted' = Counted \ {lease[s].id}
           /\ ~lease[s].owns => Holders' = Holders /\ Counted' = Counted
<1> USE SubmissionAssumption DEF IInv, Structure
<1> DEFINE b == lease[s].id
<1>1. NoLease \in Leases
  BY DEF NoLease, Leases
<1>2. /\ lease' = [lease EXCEPT ![s] = NoLease]
      /\ lease[s].owns =>
           /\ b \in 1 .. allocated /\ b \in Buffers
           /\ index[b] = 0 /\ ~released[b]
           /\ released' = [released EXCEPT ![b] = TRUE]
      /\ ~lease[s].owns => released' = released
  BY <1>1, ReplaceFacts
<1>3. lease \in [Slots -> Leases] /\ released \in [Buffers -> BOOLEAN]
      /\ allocated \in 0 .. MaxBuffers /\ handler \in [Buffers -> Stages]
  BY DEF TypeOK
<1>4. /\ ~lease'[s].owns /\ ~lease'[s].buf /\ lease'[s].id = 0
      /\ \A t \in Slots : t # s => lease'[t] = lease[t]
  BY <1>2, <1>3 DEF NoLease
<1>5. LeaseShape'
  BY <1>3, <1>4 DEF LeaseShape
<1>6. LeasesDistinct'
  BY <1>3, <1>4 DEF LeasesDistinct
<1>7. lease[s].owns => b \in Counted /\ handler[b] = "none"
  BY <1>2 DEF Counted, HandlerShape
<1>8. \A c \in Buffers : c # b \/ ~lease[s].owns => released'[c] = released[c]
  BY <1>2, <1>3
<1>9. OpenUncommitted'
  <2> SUFFICES ASSUME NEW t \in Slots, lease'[t].owns
               PROVE  index[lease'[t].id] = 0 /\ ~released'[lease'[t].id]
    BY DEF OpenUncommitted
  <2>1. t # s /\ lease'[t] = lease[t] /\ lease[t].owns
    BY <1>4
  <2>2. lease[t].id # 0 /\ lease[t].id \in Buffers
    BY <2>1, <1>3 DEF LeaseShape, Leases, Buffers
  <2>3. lease[t].id # b
    BY <2>1, <2>2 DEF LeasesDistinct
  <2>4. QED
    BY <2>1, <2>2, <2>3, <1>8 DEF OpenUncommitted
<1>10. UnbornUntouched'
  BY <1>2, <1>3, <1>8 DEF UnbornUntouched, Buffers
<1>11. HandlerShape'
  <2>1. CASE lease[s].owns
    BY <2>1, <1>2, <1>3, <1>7, <1>8 DEF HandlerShape
  <2>2. CASE ~lease[s].owns
    BY <2>2, <1>2 DEF HandlerShape
  <2>3. QED
    BY <2>1, <2>2
<1>12. ASSUME lease[s].owns
       PROVE  Holders' = Holders \ {b} /\ Counted' = Counted \ {b}
  <2>1. \A c \in 1 .. allocated : c \in Buffers
    BY <1>3 DEF Buffers
  <2>2. QED
    BY <1>12, <1>2, <1>3, <1>7, <1>8, <2>1 DEF Holders, Counted
<1>13. ASSUME ~lease[s].owns
       PROVE  Holders' = Holders /\ Counted' = Counted
  BY <1>13, <1>2 DEF Holders, Counted
<1>14. QED
  BY <1>2, <1>5, <1>6, <1>7, <1>9, <1>10, <1>11, <1>12, <1>13

LEMMA TokenTimeoutKeeps ==
    ASSUME IInv, TokenTimeout PROVE IInv'
<1> USE SubmissionAssumption DEF IInv, Structure
<1>1. /\ Replace(slot, NoLease) /\ slot \in Slots
      /\ UNCHANGED <<submitted, completed, allocated, index, gpuDone, handler,
                     uses, strayed, slot, awaited, acquired, drained>>
      /\ at = "token" /\ at' = "idle"
  BY DEF TokenTimeout, TypeOK, queue
<1>2. ~lease[slot].owns
  BY <1>1 DEF InsideCall
<1>3. NoLease \in Leases
  BY DEF NoLease, Leases
<1>4. /\ UNCHANGED <<released, inFlight, sem>>
      /\ lease' \in [Slots -> Leases]
      /\ pinned' \in [Buffers -> SUBSET Objects] /\ alive' \subseteq Objects
  BY <1>1, <1>2, <1>3, ReplaceFacts
<1>5. /\ LeaseShape' /\ OpenUncommitted' /\ LeasesDistinct'
      /\ UnbornUntouched' /\ HandlerShape'
      /\ Holders' = Holders /\ Counted' = Counted
  BY <1>1, <1>2, DropKeepsShape
<1>6. TypeOK'
  BY <1>1, <1>4 DEF TypeOK
<1>7. InsideCall'
  BY <1>1 DEF InsideCall
<1>8. TokensConserved'
  BY <1>1, <1>4, <1>5 DEF TokensConserved, InHand, CountInHand
<1>9. QED
  BY <1>5, <1>6, <1>7, <1>8

LEMMA AbandonKeeps ==
    ASSUME IInv, NEW s \in Slots, Abandon(s) PROVE IInv'
<1> USE SubmissionAssumption DEF IInv, Structure
<1>1. /\ Replace(s, NoLease) /\ at = "idle"
      /\ UNCHANGED <<submitted, completed, allocated, index, gpuDone, handler,
                     uses, strayed, at, slot, awaited, acquired, drained>>
  BY DEF Abandon, queue, thread
<1>2. NoLease \in Leases
  BY DEF NoLease, Leases
<1>3. /\ lease' \in [Slots -> Leases] /\ released' \in [Buffers -> BOOLEAN]
      /\ pinned' \in [Buffers -> SUBSET Objects] /\ alive' \subseteq Objects
      /\ lease[s].owns => inFlight' = inFlight - 1 /\ sem' = sem + 1
      /\ ~lease[s].owns => UNCHANGED <<inFlight, sem>>
  BY <1>1, <1>2, ReplaceFacts
<1>4. /\ LeaseShape' /\ OpenUncommitted' /\ LeasesDistinct'
      /\ UnbornUntouched' /\ HandlerShape'
  BY <1>1, DropKeepsShape
<1>5. sem' \in Nat /\ inFlight' \in Nat /\ TokensConserved'
  <2>1. sem \in Nat /\ inFlight \in Nat
    BY DEF TypeOK
  <2>2. sem + Cardinality(Holders) = Bound /\ inFlight = Cardinality(Counted)
    BY <1>1, <2>1, TokenSetsFinite DEF TokensConserved, InHand, CountInHand
  <2>3. CASE lease[s].owns
    <3>1. /\ Cardinality(Holders') = Cardinality(Holders) - 1
          /\ Cardinality(Counted') = Cardinality(Counted) - 1
          /\ Cardinality(Counted) >= 1
      BY <1>1, <2>3, DropKeepsShape, TokenReturned
    <3>2. QED
      BY <1>1, <1>3, <2>1, <2>2, <2>3, <3>1, TokenSetsFinite
         DEF TokensConserved, InHand, CountInHand
  <2>4. CASE ~lease[s].owns
    <3>1. Holders' = Holders /\ Counted' = Counted
      BY <1>1, <2>4, DropKeepsShape
    <3>2. QED
      BY <1>1, <1>3, <2>1, <2>2, <2>4, <3>1, TokenSetsFinite
         DEF TokensConserved, InHand, CountInHand
  <2>5. QED
    BY <2>3, <2>4
<1>6. TypeOK'
  BY <1>1, <1>3, <1>5 DEF TypeOK
<1>7. InsideCall'
  BY <1>1 DEF InsideCall
<1>8. QED
  BY <1>4, <1>5, <1>6, <1>7

LEMMA FinishMakeKeeps ==
    ASSUME IInv, FinishMake PROVE IInv'
<1> USE SubmissionAssumption DEF IInv, Structure
<1> DEFINE b == allocated + 1
<1>1. /\ Replace(slot, NewLease(b)) /\ slot \in Slots /\ allocated' = b
      /\ UNCHANGED <<submitted, completed, index, gpuDone, handler,
                     uses, strayed, slot, awaited, acquired, drained>>
      /\ at = "alloc" /\ at' = "idle" /\ ~lease[slot].owns /\ allocated < MaxBuffers
  BY DEF FinishMake, TypeOK, InsideCall
<1>2. lease \in [Slots -> Leases] /\ released \in [Buffers -> BOOLEAN]
      /\ allocated \in 0 .. MaxBuffers /\ handler \in [Buffers -> Stages]
      /\ sem \in Nat /\ inFlight \in Nat
  BY DEF TypeOK
<1>3. b \in Buffers /\ b \in 1 .. b /\ allocated' \in 0 .. MaxBuffers /\ b \notin 1 .. allocated
  BY <1>1, <1>2 DEF Buffers
<1>4. NewLease(b) \in Leases
  BY <1>2, <1>3 DEF NewLease, Leases, Buffers
<1>5. /\ lease' = [lease EXCEPT ![slot] = NewLease(b)] /\ lease' \in [Slots -> Leases]
      /\ UNCHANGED <<released, inFlight, sem>>
      /\ pinned' \in [Buffers -> SUBSET Objects] /\ alive' \subseteq Objects
  BY <1>1, <1>4, ReplaceFacts
<1>6. index[b] = 0 /\ ~released[b] /\ handler[b] = "none"
  BY <1>2, <1>3 DEF UnbornUntouched, HandlerShape
<1>7. /\ lease'[slot].id = b /\ lease'[slot].buf /\ lease'[slot].owns
      /\ ~lease'[slot].tokenMoved /\ ~lease'[slot].retainedMoved
      /\ \A t \in Slots : t # slot => lease'[t] = lease[t]
  BY <1>1, <1>2, <1>5 DEF NewLease
<1>8. \A t \in Slots : lease[t].id \in Nat /\ lease[t].id <= allocated
  BY <1>2 DEF LeaseShape, Leases
<1>9. LeaseShape'
  BY <1>1, <1>2, <1>3, <1>7, <1>8 DEF LeaseShape
<1>10. OpenUncommitted'
  BY <1>1, <1>5, <1>6, <1>7 DEF OpenUncommitted
<1>11. LeasesDistinct'
  BY <1>2, <1>7, <1>8 DEF LeasesDistinct
<1>12. UnbornUntouched' /\ HandlerShape'
  BY <1>1, <1>2, <1>5 DEF UnbornUntouched, HandlerShape, Buffers
<1>13. InsideCall'
  BY <1>1 DEF InsideCall
<1>14. Holders' = Holders \cup {b} /\ Counted' = Counted \cup {b}
  <2>1. 1 .. allocated' = (1 .. allocated) \cup {b}
    BY <1>1, <1>2
  <2>2. QED
    BY <1>1, <1>5, <1>6, <2>1 DEF Holders, Counted
<1>15. b \notin Holders /\ b \notin Counted
  BY <1>3 DEF Holders, Counted
<1>16. /\ Cardinality(Holders') = Cardinality(Holders) + 1
       /\ Cardinality(Counted') = Cardinality(Counted) + 1
  BY <1>14, <1>15, TokenSetsFinite, FS_AddElement
<1>17. TokensConserved'
  BY <1>1, <1>2, <1>5, <1>16, TokenSetsFinite
     DEF TokensConserved, InHand, CountInHand
<1>18. TypeOK'
  BY <1>1, <1>3, <1>5 DEF TypeOK
<1>19. QED
  BY <1>9, <1>10, <1>11, <1>12, <1>13, <1>17, <1>18

LEMMA NilBufferKeeps ==
    ASSUME IInv, NilBuffer PROVE IInv'
<1> USE SubmissionAssumption DEF IInv, Structure
<1>1. /\ slot \in Slots /\ lease' = [lease EXCEPT ![slot] = NoLease]
      /\ UNCHANGED <<submitted, completed, released, pinned, alive, allocated, index,
                     gpuDone, handler, uses, strayed, slot, awaited, acquired, drained>>
      /\ at = "alloc" /\ at' = "idle" /\ inFlight' = inFlight - 1 /\ sem' = sem + 1
  BY DEF NilBuffer, queue, TypeOK
<1>2. lease \in [Slots -> Leases] /\ sem \in Nat /\ inFlight \in Nat
      /\ allocated \in 0 .. MaxBuffers
  BY DEF TypeOK
<1>3. NoLease \in Leases
  BY DEF NoLease, Leases
<1>4. lease' \in [Slots -> Leases]
  BY <1>1, <1>2, <1>3
<1>5. /\ ~lease'[slot].owns /\ ~lease'[slot].buf /\ lease'[slot].id = 0
      /\ \A t \in Slots : t # slot => lease'[t] = lease[t]
  BY <1>1, <1>2 DEF NoLease
<1>6. LeaseShape' /\ LeasesDistinct'
  BY <1>1, <1>2, <1>5 DEF LeaseShape, LeasesDistinct
<1>7. OpenUncommitted'
  BY <1>1, <1>5 DEF OpenUncommitted
<1>8. UnbornUntouched' /\ HandlerShape' /\ InsideCall'
  BY <1>1 DEF UnbornUntouched, HandlerShape, InsideCall
<1>9. Holders' = Holders /\ Counted' = Counted
  BY <1>1 DEF Holders, Counted
<1>10. TokensConserved' /\ inFlight' \in Nat
  BY <1>1, <1>2, <1>9, TokenSetsFinite DEF TokensConserved, InHand, CountInHand
<1>11. TypeOK'
  BY <1>1, <1>2, <1>4, <1>10 DEF TypeOK
<1>12. QED
  BY <1>6, <1>7, <1>8, <1>10, <1>11

\* The steps of the GL thread that move tokens between the semaphore, its
\* own hand and the count, and leave every lease and buffer alone.
LEMMA HandKeeps ==
    ASSUME IInv,
           TakeToken \/ CountToken \/ EndWait \/ BeginDrain \/ DrainToken \/ EndDrain
    PROVE  IInv'
<1> USE SubmissionAssumption DEF IInv, Structure
<1>1. UNCHANGED <<submitted, completed, lease, released, pinned, alive, allocated,
                  index, gpuDone, handler, uses, strayed, slot, awaited>>
  BY DEF TakeToken, CountToken, EndWait, BeginDrain, DrainToken, EndDrain,
         shared, leases, queue
<1>2. sem \in Nat /\ inFlight \in Nat /\ acquired \in 0 .. Bound /\ drained \in BOOLEAN
  BY DEF TypeOK
<1>3. /\ LeaseShape' /\ OpenUncommitted' /\ LeasesDistinct'
      /\ UnbornUntouched' /\ HandlerShape'
  BY <1>1 DEF LeaseShape, OpenUncommitted, LeasesDistinct, UnbornUntouched, HandlerShape
<1>4. Holders' = Holders /\ Counted' = Counted
  BY <1>1 DEF Holders, Counted
<1>5. CASE TakeToken
  <2>1. /\ at = "token" /\ at' = "count" /\ sem > 0 /\ sem' = sem - 1
        /\ UNCHANGED <<inFlight, acquired, drained>>
    BY <1>5 DEF TakeToken
  <2>2. TokensConserved'
    BY <1>2, <1>4, <2>1, TokenSetsFinite DEF TokensConserved, InHand, CountInHand
  <2>3. TypeOK' /\ InsideCall'
    BY <1>1, <1>2, <2>1 DEF TypeOK, InsideCall
  <2>4. QED
    BY <1>3, <2>2, <2>3
<1>6. CASE CountToken
  <2>1. /\ at = "count" /\ at' = "alloc" /\ inFlight' = inFlight + 1
        /\ UNCHANGED <<sem, acquired, drained>>
    BY <1>6 DEF CountToken
  <2>2. TokensConserved'
    BY <1>2, <1>4, <2>1, TokenSetsFinite DEF TokensConserved, InHand, CountInHand
  <2>3. TypeOK' /\ InsideCall'
    BY <1>1, <1>2, <2>1 DEF TypeOK, InsideCall
  <2>4. QED
    BY <1>3, <2>2, <2>3
<1>7. CASE EndWait
  <2>1. at = "completion" /\ at' = "idle" /\ UNCHANGED <<sem, inFlight, acquired, drained>>
    BY <1>7 DEF EndWait, shared
  <2>2. TokensConserved'
    BY <1>4, <2>1 DEF TokensConserved, InHand, CountInHand
  <2>3. TypeOK' /\ InsideCall'
    BY <1>1, <2>1 DEF TypeOK, InsideCall
  <2>4. QED
    BY <1>3, <2>2, <2>3
<1>8. CASE BeginDrain
  <2>1. /\ at = "idle" /\ UNCHANGED <<sem, inFlight>>
        /\ \A s \in Slots : ~lease[s].buf
        /\ \/ at' = at /\ acquired' = acquired /\ drained' = TRUE
           \/ at' = "drain" /\ acquired' = 0 /\ drained' = drained
    BY <1>8 DEF BeginDrain, shared
  <2>2. TokensConserved'
    BY <1>2, <1>4, <2>1, TokenSetsFinite DEF TokensConserved, InHand, CountInHand
  <2>3. acquired' \in 0 .. Bound
    BY <1>2, <2>1
  <2>4. drained' \in BOOLEAN
    BY <1>2, <2>1, Zenon
  <2>5. TypeOK' /\ InsideCall'
    BY <1>1, <2>1, <2>3, <2>4 DEF TypeOK, InsideCall
  <2>6. QED
    BY <1>3, <2>2, <2>5
<1>9. CASE DrainToken
  <2>1. /\ at = "drain" /\ at' = at /\ sem > 0 /\ sem' = sem - 1
        /\ acquired < Bound /\ acquired' = acquired + 1
        /\ UNCHANGED <<inFlight, drained>>
    BY <1>9 DEF DrainToken
  <2>2. TokensConserved'
    BY <1>2, <1>4, <2>1, TokenSetsFinite DEF TokensConserved, InHand, CountInHand
  <2>3. TypeOK' /\ InsideCall'
    BY <1>1, <1>2, <2>1 DEF TypeOK, InsideCall
  <2>4. QED
    BY <1>3, <2>2, <2>3
<1>10. CASE EndDrain
  <2>1. /\ at = "drain" /\ at' = "idle" /\ sem' = sem + acquired
        /\ acquired' = 0 /\ drained' \in BOOLEAN /\ UNCHANGED inFlight
    BY <1>10 DEF EndDrain
  <2>2. TokensConserved'
    BY <1>2, <1>4, <2>1, TokenSetsFinite DEF TokensConserved, InHand, CountInHand
  <2>3. TypeOK' /\ InsideCall'
    BY <1>1, <1>2, <2>1 DEF TypeOK, InsideCall
  <2>4. QED
    BY <1>3, <2>2, <2>3
<1>11. QED
  BY <1>5, <1>6, <1>7, <1>8, <1>9, <1>10

\* Adopting an object touches neither tokens nor leases.
LEMMA AdoptKeeps ==
    ASSUME IInv, NEW o \in Objects, NEW s \in Slots,
           Adopt(s, o) \/ AdoptRingFallback(s, o)
    PROVE  IInv'
<1> USE SubmissionAssumption DEF IInv, Structure
<1>1. /\ UNCHANGED <<sem, inFlight, submitted, completed, lease, released, allocated,
                     index, gpuDone, handler, awaited, acquired, drained>>
      /\ alive' = alive \cup {o}
      /\ Open(s)
      /\ uses' = [uses EXCEPT ![lease[s].id] = @ \cup {o}]
      /\ \/ UNCHANGED <<at, slot>> /\ at = "idle"
         \/ at \in {"idle", "dispatch"} /\ at' = "dispatch" /\ slot' = s /\ s # Current
  BY DEF Adopt, AdoptRingFallback, shared, thread
<1>2. pinned \in [Buffers -> SUBSET Objects] /\ uses \in [Buffers -> SUBSET Objects]
      /\ strayed \in [Buffers -> SUBSET Objects]
      /\ lease \in [Slots -> Leases] /\ alive \subseteq Objects
      /\ allocated \in 0 .. MaxBuffers /\ Current \in Slots
  BY DEF TypeOK
<1>3. lease[s].id \in Buffers /\ lease[s].owns
  BY <1>1, <1>2 DEF Open, LeaseShape, Leases, Buffers
<1>4. pinned' \in [Buffers -> SUBSET Objects] /\ strayed' \in [Buffers -> SUBSET Objects]
  <2>1. \/ pinned' = pinned
        \/ pinned' = [pinned EXCEPT ![lease[Current].id] = @ \cup {o}]
        \/ pinned' = [pinned EXCEPT ![lease[s].id] = @ \cup {o}]
    BY DEF Adopt, AdoptRingFallback
  <2>2. \/ strayed' = strayed
        \/ strayed' = [strayed EXCEPT ![lease[s].id] = @ \cup {o}]
    BY DEF Adopt, AdoptRingFallback
  <2>3. QED
    BY <1>2, <2>1, <2>2
<1>5. uses' \in [Buffers -> SUBSET Objects] /\ slot' \in Slots
  BY <1>1, <1>2 DEF TypeOK
<1>6. TypeOK'
  BY <1>1, <1>2, <1>4, <1>5 DEF TypeOK
<1>7. /\ LeaseShape' /\ OpenUncommitted' /\ LeasesDistinct'
      /\ UnbornUntouched' /\ HandlerShape'
  BY <1>1 DEF LeaseShape, OpenUncommitted, LeasesDistinct, UnbornUntouched, HandlerShape
<1>8. InsideCall'
  BY <1>1, <1>3 DEF InsideCall
<1>9. TokensConserved'
  BY <1>1 DEF TokensConserved, Holders, Counted, InHand, CountInHand
<1>10. QED
  BY <1>6, <1>7, <1>8, <1>9

LEMMA GpuFinishKeeps ==
    ASSUME IInv, GpuFinish PROVE IInv'
<1> USE SubmissionAssumption DEF IInv, Structure
<1>1. UNCHANGED <<sem, inFlight, submitted, completed, lease, released, pinned, alive,
                  allocated, index, handler, uses, strayed, at, slot, awaited, acquired, drained>>
      /\ gpuDone' = gpuDone + 1
  BY DEF GpuFinish, shared, leases, thread
<1>2. TypeOK'
  BY <1>1 DEF TypeOK
<1>3. /\ LeaseShape' /\ OpenUncommitted' /\ LeasesDistinct'
      /\ UnbornUntouched' /\ HandlerShape' /\ InsideCall'
  BY <1>1 DEF LeaseShape, OpenUncommitted, LeasesDistinct, UnbornUntouched,
              HandlerShape, InsideCall
<1>4. TokensConserved'
  BY <1>1 DEF TokensConserved, Holders, Counted, InHand, CountInHand
<1>5. QED
  BY <1>2, <1>3, <1>4

\* A handler's steps: only the two halves of releaseToken move a token.
LEMMA HandlerKeeps ==
    ASSUME IInv, NEW b \in Buffers, Handler(b) PROVE IInv'
<1> USE SubmissionAssumption DEF IInv, Structure
<1>1. UNCHANGED <<submitted, lease, allocated, index, gpuDone, uses, strayed,
                  at, slot, awaited, acquired, drained>>
  BY DEF Handler, RecordCompleted, UncountToken, SignalToken, ReleaseRetained,
         leases, thread, shared
<1>2. /\ handler \in [Buffers -> Stages] /\ released \in [Buffers -> BOOLEAN]
      /\ sem \in Nat /\ inFlight \in Nat /\ completed \in Nat
      /\ allocated \in 0 .. MaxBuffers /\ index \in [Buffers -> Nat]
      /\ lease \in [Slots -> Leases]
      /\ pinned \in [Buffers -> SUBSET Objects] /\ alive \subseteq Objects
  BY DEF TypeOK
<1>3. LeaseShape' /\ LeasesDistinct' /\ InsideCall'
  BY <1>1 DEF LeaseShape, LeasesDistinct, InsideCall
<1>4. CASE RecordCompleted(b)
  <2>1. /\ UNCHANGED <<sem, inFlight, released, pinned, alive>>
        /\ completed' = completed + 1
        /\ handler[b] = "none" /\ handler' = [handler EXCEPT ![b] = "recorded"]
        /\ index[b] # 0
    BY <1>4 DEF RecordCompleted, leases, GpuFinished
  <2>2. OpenUncommitted' /\ UnbornUntouched'
    BY <1>1, <2>1 DEF OpenUncommitted, UnbornUntouched
  <2>3. HandlerShape'
    BY <1>1, <1>2, <2>1 DEF HandlerShape
  <2>4. Holders' = Holders /\ Counted' = Counted
    <3>1. \A c \in 1 .. allocated : handler'[c] = "uncounted" <=> handler[c] = "uncounted"
      BY <1>2, <2>1 DEF Buffers
    <3>2. QED
      BY <1>1, <2>1, <3>1 DEF Holders, Counted
  <2>5. TokensConserved'
    BY <1>1, <2>1, <2>4 DEF TokensConserved, InHand, CountInHand
  <2>6. TypeOK'
    BY <1>1, <1>2, <2>1 DEF TypeOK, Stages
  <2>7. QED
    BY <1>3, <2>2, <2>3, <2>5, <2>6
<1>5. CASE UncountToken(b)
  <2>1. /\ handler[b] = "recorded" /\ index[b] # 0 /\ ~released[b] /\ b \in 1 .. allocated
    BY <1>2, <1>5 DEF UncountToken, HandlerShape, UnbornUntouched, Buffers
  <2>2. /\ UNCHANGED <<sem, completed, pinned, alive>>
        /\ released' = [released EXCEPT ![b] = TRUE]
        /\ handler' = [handler EXCEPT ![b] = "uncounted"]
        /\ inFlight' = inFlight - 1
    BY <1>5, <2>1 DEF UncountToken
  <2>3. OpenUncommitted'
    <3> SUFFICES ASSUME NEW t \in Slots, lease[t].owns
                 PROVE  index[lease[t].id] = 0 /\ ~released'[lease[t].id]
      BY <1>1 DEF OpenUncommitted
    <3>1. index[lease[t].id] = 0 /\ ~released[lease[t].id] /\ lease[t].id \in Buffers
      BY <1>2 DEF OpenUncommitted, LeaseShape, Leases, Buffers
    <3>2. QED
      BY <1>2, <2>1, <2>2, <3>1
  <2>4. UnbornUntouched' /\ HandlerShape'
    BY <1>1, <1>2, <2>1, <2>2 DEF UnbornUntouched, HandlerShape, Buffers
  <2>5. b \in Counted
    BY <2>1 DEF Counted
  <2>6. Holders' = Holders
    <3>1. \A c \in 1 .. allocated :
            (~released'[c] \/ handler'[c] = "uncounted")
              <=> (~released[c] \/ handler[c] = "uncounted")
      BY <1>2, <2>1, <2>2 DEF Buffers
    <3>2. QED
      BY <1>1, <3>1 DEF Holders
  <2>7. Counted' = Counted \ {b}
    <3>1. \A c \in 1 .. allocated : ~released'[c] <=> ~released[c] /\ c # b
      BY <1>2, <2>1, <2>2 DEF Buffers
    <3>2. QED
      BY <1>1, <3>1 DEF Counted
  <2>8. /\ Cardinality(Counted') = Cardinality(Counted) - 1 /\ Cardinality(Counted) >= 1
    BY <2>5, <2>7, TokenReturned
  <2>9. TokensConserved' /\ inFlight' \in Nat
    BY <1>1, <1>2, <2>2, <2>6, <2>8, TokenSetsFinite
       DEF TokensConserved, InHand, CountInHand
  <2>10. TypeOK'
    BY <1>1, <1>2, <2>2, <2>9 DEF TypeOK, Stages
  <2>11. QED
    BY <1>3, <2>3, <2>4, <2>9, <2>10
<1>6. CASE SignalToken(b)
  <2>1. /\ handler[b] = "uncounted" /\ index[b] # 0 /\ released[b]
        /\ b \in 1 .. allocated
        /\ UNCHANGED <<inFlight, completed, released, pinned, alive>>
        /\ handler' = [handler EXCEPT ![b] = "signalled"] /\ sem' = sem + 1
    BY <1>2, <1>6 DEF SignalToken, HandlerShape, UnbornUntouched, Buffers, leases
  <2>2. OpenUncommitted' /\ UnbornUntouched'
    BY <1>1, <2>1 DEF OpenUncommitted, UnbornUntouched
  <2>3. HandlerShape'
    BY <1>1, <1>2, <2>1 DEF HandlerShape
  <2>4. b \in Holders
    BY <2>1 DEF Holders
  <2>5. Holders' = Holders \ {b}
    <3>1. \A c \in 1 .. allocated :
            (~released[c] \/ handler'[c] = "uncounted")
              <=> (~released[c] \/ handler[c] = "uncounted") /\ c # b
      BY <1>2, <2>1 DEF Buffers
    <3>2. QED
      BY <1>1, <2>1, <3>1 DEF Holders
  <2>6. Counted' = Counted
    BY <1>1, <2>1 DEF Counted
  <2>7. Cardinality(Holders') = Cardinality(Holders) - 1
    BY <2>4, <2>5, TokenSetsFinite, FS_RemoveElement
  <2>8. TokensConserved'
    BY <1>1, <1>2, <2>1, <2>6, <2>7, TokenSetsFinite
       DEF TokensConserved, InHand, CountInHand
  <2>9. TypeOK'
    BY <1>1, <1>2, <2>1 DEF TypeOK, Stages
  <2>10. QED
    BY <1>3, <2>2, <2>3, <2>8, <2>9
<1>7. CASE ReleaseRetained(b)
  <2>1. /\ handler[b] = "signalled" /\ handler' = [handler EXCEPT ![b] = "done"]
        /\ UNCHANGED <<sem, inFlight, completed, released>>
        /\ pinned' = [pinned EXCEPT ![b] = {}] /\ alive' = alive \ pinned[b]
    BY <1>7 DEF ReleaseRetained, shared
  <2>2. OpenUncommitted' /\ UnbornUntouched'
    BY <1>1, <2>1 DEF OpenUncommitted, UnbornUntouched
  <2>3. HandlerShape'
    BY <1>1, <1>2, <2>1 DEF HandlerShape
  <2>4. Holders' = Holders /\ Counted' = Counted
    <3>1. \A c \in 1 .. allocated : handler'[c] = "uncounted" <=> handler[c] = "uncounted"
      BY <1>2, <2>1 DEF Buffers
    <3>2. QED
      BY <1>1, <2>1, <3>1 DEF Holders, Counted
  <2>5. TokensConserved'
    BY <1>1, <2>1, <2>4 DEF TokensConserved, InHand, CountInHand
  <2>6. pinned' \in [Buffers -> SUBSET Objects] /\ alive' \subseteq Objects
    BY <1>2, <2>1
  <2>7. TypeOK'
    BY <1>1, <1>2, <2>1, <2>6 DEF TypeOK, Stages
  <2>8. QED
    BY <1>3, <2>2, <2>3, <2>5, <2>7
<1>8. QED
  BY <1>4, <1>5, <1>6, <1>7 DEF Handler

-----------------------------------------------------------------------------
LEMMA NextInvariant == IInv /\ [Next]_vars => IInv'
<1> SUFFICES ASSUME IInv, [Next]_vars PROVE IInv'
  OBVIOUS
<1>1. ASSUME Call PROVE IInv'
  BY <1>1, BeginMakeKeeps, CommitKeeps, AbandonKeeps, AdoptKeeps, HandKeeps DEF Call
<1>2. ASSUME Continue PROVE IInv'
  <2>1. slot \in Slots
    BY DEF IInv, Structure, TypeOK
  <2>2. QED
    BY <1>2, <2>1, CommitKeeps, HandKeeps, TokenTimeoutKeeps, FinishMakeKeeps,
       NilBufferKeeps DEF Continue
<1>3. ASSUME UNCHANGED vars PROVE IInv'
  <2>1. Structure'
    BY <1>3 DEF IInv, Structure, TypeOK, LeaseShape, OpenUncommitted, LeasesDistinct,
                UnbornUntouched, HandlerShape, InsideCall, vars
  <2>2. TokensConserved'
    BY <1>3 DEF IInv, TokensConserved, Holders, Counted, InHand, CountInHand, vars
  <2>3. QED
    BY <2>1, <2>2 DEF IInv
<1>4. QED
  BY <1>1, <1>2, <1>3, GpuFinishKeeps, HandlerKeeps DEF Next

THEOREM SpecInvariant == Spec => []IInv
  BY InitInvariant, NextInvariant, PTL DEF Spec

\* Every variable has its type in every reachable state, so the unsigned
\* count never goes below zero: releaseToken, abandon and the nil path of
\* makeCommandBufferImpl decrement only what was counted.
THEOREM SpecTypeOK == Spec => []TypeOK
<1>1. IInv => TypeOK
  BY DEF IInv, Structure
<1>2. QED
  BY <1>1, SpecInvariant, PTL

\* The semaphore, the outstanding buffers and the GL thread account for
\* exactly Bound tokens, whatever order handlers, timeouts, failed
\* allocations and drains come in.
THEOREM SpecTokensConserved == Spec => []TokensConserved
<1>1. IInv => TokensConserved
  BY DEF IInv
<1>2. QED
  BY <1>1, SpecInvariant, PTL

\* The assertion afterAcquire <= inFlightBound of makeCommandBufferImpl.
THEOREM SpecInFlightBounded == Spec => []InFlightBounded
<1>1. IInv => InFlightBounded
  <2> SUFFICES ASSUME IInv PROVE InFlightBounded
    OBVIOUS
  <2> USE SubmissionAssumption DEF IInv, Structure
  <2>1. sem \in Nat /\ acquired \in 0 .. Bound /\ inFlight \in Nat
    BY DEF TypeOK
  <2>2. Counted \subseteq Holders
    BY DEF Counted, Holders
  <2>3. Cardinality(Counted) <= Cardinality(Holders)
    BY <2>2, TokenSetsFinite, FS_Subset
  <2>4. CountInHand <= InHand /\ InHand \in Nat /\ CountInHand \in Nat
    BY <2>1 DEF CountInHand, InHand
  <2>5. QED
    BY <2>1, <2>3, <2>4, TokenSetsFinite DEF TokensConserved, InFlightBounded
<1>2. QED
  BY <1>1, SpecInvariant, PTL

\* The assertion of releaseToken: whoever returns a token, a handler or a
\* lease, is the first to do so.
THEOREM SpecNoDoubleRelease == Spec => []NoDoubleRelease
<1>1. IInv => NoDoubleRelease
  BY DEF IInv, Structure, HandlerShape, OpenUncommitted, NoDoubleRelease
<1>2. QED
  BY <1>1, SpecInvariant, PTL

-----------------------------------------------------------------------------
(* CompletionSound: the watermark and the drain.                           *)

Committed == {b \in Buffers : index[b] # 0}
Recorded == {b \in Buffers : handler[b] # "none"}

\* Positions in the queue are given out once each.
IndexSound ==
    /\ \A b \in Buffers : index[b] <= submitted
    /\ \A b, c \in Buffers : index[b] # 0 /\ index[b] = index[c] => b = c

\* Handlers start after the GPU, which is behind the queue; the two counters
\* count what they are meant to.
CountersSound ==
    /\ gpuDone <= submitted
    /\ \A b \in Buffers : handler[b] # "none" => GpuFinished(b)
    /\ completed = Cardinality(Recorded)
    /\ submitted = Cardinality(Committed)

CompletionInv == IndexSound /\ CountersSound /\ DrainSound

\* The counted sets are finite.
LEMMA BufferSetsFinite ==
    /\ IsFiniteSet(Buffers)
    /\ IsFiniteSet(Recorded) /\ Cardinality(Recorded) \in Nat
    /\ IsFiniteSet(Committed) /\ Cardinality(Committed) \in Nat
<1>1. IsFiniteSet(Buffers)
  BY SubmissionAssumption, FS_Interval DEF Buffers
<1>2. Recorded \in SUBSET Buffers /\ Committed \in SUBSET Buffers
  BY DEF Recorded, Committed
<1>3. IsFiniteSet(Recorded) /\ IsFiniteSet(Committed)
  BY <1>1, <1>2, FS_Subset
<1>4. QED
  BY <1>1, <1>3, FS_CardinalityType

\* The count of completions never passes the position the GPU has reached: the
\* handlers counted so far belong to different buffers it has finished.
LEMMA CompletedBehindGpu ==
    ASSUME TypeOK, IndexSound, CountersSound
    PROVE  completed <= gpuDone
<1> DEFINE f == [b \in Recorded |-> index[b]]
<1>1. index \in [Buffers -> Nat] /\ gpuDone \in Nat /\ completed \in Nat
  BY DEF TypeOK
<1>2. \A b \in Recorded : b \in Buffers /\ index[b] \in 1 .. gpuDone
  BY <1>1 DEF Recorded, CountersSound, GpuFinished
<1>3. f \in [Recorded -> 1 .. gpuDone]
  BY <1>2
<1>4. \A b, c \in Recorded : f[b] = f[c] => b = c
  BY <1>2 DEF IndexSound
<1>5. f \in Injection(Recorded, 1 .. gpuDone)
  BY <1>3, <1>4 DEF Injection, IsInjective
<1>6. IsFiniteSet(1 .. gpuDone) /\ Cardinality(1 .. gpuDone) = gpuDone
  BY <1>1, FS_Interval
<1>7. Cardinality(Recorded) <= Cardinality(1 .. gpuDone)
  BY <1>5, <1>6, FS_Injection
<1>8. QED
  BY <1>6, <1>7 DEF CountersSound

\* If every committed buffer is recorded, nothing is left behind.
LEMMA AllRecorded ==
    ASSUME TypeOK, IndexSound, CountersSound, Committed \subseteq Recorded
    PROVE  completed = submitted /\ gpuDone = submitted
<1>1. Recorded \subseteq Committed
  BY DEF CountersSound, GpuFinished, Recorded, Committed
<1>2. Recorded = Committed
  BY <1>1
<1>3. completed = submitted
  BY <1>2 DEF CountersSound
<1>4. gpuDone \in Nat /\ submitted \in Nat /\ gpuDone <= submitted
  BY DEF TypeOK, CountersSound
<1>5. QED
  BY <1>3, <1>4, CompletedBehindGpu

\* A buffer whose token is back was recorded, if it was committed at all.
LEMMA ReturnedRecorded ==
    ASSUME IInv, NEW b \in Buffers, index[b] # 0,
           b \notin Holders \/ b \notin Counted
    PROVE  b \in Recorded
<1> USE SubmissionAssumption DEF IInv, Structure
<1>1. b \in 1 .. allocated
  BY DEF UnbornUntouched, TypeOK, Buffers
<1>2. released[b]
  BY <1>1 DEF Holders, Counted
<1>3. handler[b] # "none"
  BY <1>2 DEF HandlerShape
<1>4. QED
  BY <1>3 DEF Recorded

LEMMA InitCompletion == Init => CompletionInv
<1> SUFFICES ASSUME Init PROVE CompletionInv
  OBVIOUS
<1>1. Recorded = {} /\ Committed = {}
  BY DEF Init, Recorded, Committed
<1>2. CountersSound
  BY <1>1, FS_EmptySet DEF Init, CountersSound
<1>3. IndexSound /\ DrainSound
  BY DEF Init, IndexSound, DrainSound
<1>4. QED
  BY <1>2, <1>3 DEF CompletionInv

\* Committing a lease gives its buffer the next position.
LEMMA CommitKeepsCompletion ==
    ASSUME IInv, CompletionInv, NEW s \in Slots, Open(s), CommitLease(s),
           UNCHANGED <<completed, gpuDone, handler>>
    PROVE  CompletionInv'
<1> USE SubmissionAssumption DEF IInv, Structure, CompletionInv
<1> DEFINE b == lease[s].id
<1>1. /\ b \in Buffers /\ index[b] = 0 /\ submitted' = submitted + 1
      /\ index' = [index EXCEPT ![b] = submitted + 1] /\ drained' = FALSE
  BY CommitFacts DEF CommitLease
<1>2. index \in [Buffers -> Nat] /\ submitted \in Nat /\ gpuDone \in Nat
  BY DEF TypeOK
<1>3. handler[b] = "none"
  BY <1>1 DEF HandlerShape
<1>4. IndexSound'
  BY <1>1, <1>2 DEF IndexSound
<1>5. Committed' = Committed \cup {b} /\ b \notin Committed
  BY <1>1, <1>2 DEF Committed
<1>6. Recorded' = Recorded
  BY DEF Recorded
<1>7. Cardinality(Committed') = Cardinality(Committed) + 1
  BY <1>5, BufferSetsFinite, FS_AddElement
<1>8. gpuDone <= submitted'
  BY <1>1, <1>2 DEF CountersSound
<1>9. \A c \in Buffers : handler[c] # "none" => GpuFinished(c)'
  BY <1>1, <1>2, <1>3 DEF CountersSound, GpuFinished
<1>10. CountersSound'
  BY <1>1, <1>6, <1>7, <1>8, <1>9 DEF CountersSound
<1>11. DrainSound'
  BY <1>1 DEF DrainSound
<1>12. QED
  BY <1>4, <1>10, <1>11

\* A drain reports success early when nothing is counted, or holds all tokens.
LEMMA DrainKeepsCompletion ==
    ASSUME IInv, CompletionInv, BeginDrain \/ EndDrain
    PROVE  CompletionInv'
<1> USE SubmissionAssumption DEF IInv, Structure, CompletionInv
<1>1. UNCHANGED <<submitted, completed, allocated, index, gpuDone, handler, released>>
  BY DEF BeginDrain, EndDrain, shared, leases, queue
<1>2. IndexSound' /\ CountersSound'
  BY <1>1 DEF IndexSound, CountersSound, Recorded, Committed, GpuFinished
<1>3. ASSUME drained', ~drained PROVE Counted = {} \/ Holders = {}
  <2>1. /\ sem \in Nat /\ inFlight \in Nat /\ acquired \in 0 .. Bound
    BY DEF TypeOK
  <2>2. CASE BeginDrain
    <3>1. at = "idle" /\ inFlight = 0
      BY <1>3, <2>2 DEF BeginDrain
    <3>2. Cardinality(Counted) = 0
      BY <3>1, TokenSetsFinite DEF TokensConserved, CountInHand
    <3>3. QED
      BY <3>2, TokenSetsFinite, FS_EmptySet
  <2>3. CASE EndDrain
    <3>1. at = "drain" /\ acquired = Bound
      BY <1>3, <2>3 DEF EndDrain
    <3>2. Cardinality(Holders) = 0
      BY <2>1, <3>1, TokenSetsFinite DEF TokensConserved, InHand
    <3>3. QED
      BY <3>2, TokenSetsFinite, FS_EmptySet
  <2>4. QED
    BY <2>2, <2>3
<1>4. ASSUME drained', ~drained PROVE Committed \subseteq Recorded
  BY <1>3, <1>4, ReturnedRecorded DEF Committed
<1>5. DrainSound'
  BY <1>1, <1>4, AllRecorded DEF DrainSound
<1>6. QED
  BY <1>2, <1>5

\* The GPU has nothing to finish, and no handler to start, after a drain.
LEMMA GpuKeepsCompletion ==
    ASSUME IInv, CompletionInv, GpuFinish PROVE CompletionInv'
<1> USE SubmissionAssumption DEF IInv, Structure, CompletionInv
<1>1. /\ UNCHANGED <<submitted, completed, index, handler, drained>>
      /\ gpuDone < submitted /\ gpuDone' = gpuDone + 1
  BY DEF GpuFinish, shared, thread
<1>2. gpuDone \in Nat /\ submitted \in Nat /\ index \in [Buffers -> Nat]
  BY DEF TypeOK
<1>3. IndexSound' /\ Recorded' = Recorded /\ Committed' = Committed
  BY <1>1 DEF IndexSound, Recorded, Committed
<1>4. \A b \in Buffers : GpuFinished(b) => GpuFinished(b)'
  BY <1>1, <1>2 DEF GpuFinished
<1>5. CountersSound'
  BY <1>1, <1>2, <1>3, <1>4 DEF CountersSound
<1>6. DrainSound'
  BY <1>1, <1>2 DEF DrainSound
<1>7. QED
  BY <1>3, <1>5, <1>6

LEMMA HandlerKeepsCompletion ==
    ASSUME IInv, CompletionInv, NEW b \in Buffers, Handler(b)
    PROVE  CompletionInv'
<1> USE SubmissionAssumption DEF IInv, Structure, CompletionInv
<1>1. UNCHANGED <<submitted, index, gpuDone, drained>>
  BY DEF Handler, RecordCompleted, UncountToken, SignalToken, ReleaseRetained,
         leases, thread, shared
<1>2. IndexSound' /\ Committed' = Committed
  BY <1>1 DEF IndexSound, Committed
<1>3. handler \in [Buffers -> Stages] /\ completed \in Nat /\ submitted \in Nat
  BY DEF TypeOK
<1>4. CASE RecordCompleted(b)
  <2>1. /\ handler[b] = "none" /\ GpuFinished(b) /\ index[b] # 0
        /\ handler' = [handler EXCEPT ![b] = "recorded"] /\ completed' = completed + 1
    BY <1>4 DEF RecordCompleted, GpuFinished
  <2>2. Recorded' = Recorded \cup {b} /\ b \notin Recorded
    BY <1>3, <2>1 DEF Recorded
  <2>3. Cardinality(Recorded') = Cardinality(Recorded) + 1
    BY <2>2, BufferSetsFinite, FS_AddElement
  <2>4. \A c \in Buffers : handler'[c] # "none" => GpuFinished(c)'
    BY <1>1, <1>3, <2>1 DEF CountersSound, GpuFinished
  <2>5. CountersSound'
    BY <1>1, <1>2, <2>1, <2>3, <2>4 DEF CountersSound
  <2>6. ~drained
    <3>1. Recorded' \in SUBSET Committed
      BY <1>1, <2>2, <2>1 DEF CountersSound, GpuFinished, Recorded, Committed
    <3>2. Cardinality(Recorded') <= Cardinality(Committed)
      BY <3>1, BufferSetsFinite, FS_Subset
    <3>3. completed < submitted
      BY <1>3, <2>3, <3>2, BufferSetsFinite DEF CountersSound
    <3>4. QED
      BY <1>3, <3>3 DEF DrainSound
  <2>7. QED
    BY <1>1, <1>2, <2>5, <2>6 DEF DrainSound
<1>5. CASE ~RecordCompleted(b)
  <2>1. /\ completed' = completed
        /\ \A c \in Buffers : handler'[c] # "none" <=> handler[c] # "none"
    BY <1>3, <1>5 DEF Handler, UncountToken, SignalToken, ReleaseRetained, shared
  <2>2. Recorded' = Recorded
    BY <2>1 DEF Recorded
  <2>3. CountersSound' /\ DrainSound'
    BY <1>1, <1>2, <2>1, <2>2 DEF CountersSound, GpuFinished, DrainSound
  <2>4. QED
    BY <1>2, <2>3
<1>6. QED
  BY <1>4, <1>5

\* Every other step leaves the counters, the positions and the handlers alone.
LEMMA RestKeepsCompletion ==
    ASSUME CompletionInv,
           UNCHANGED <<submitted, completed, index, gpuDone, handler, drained>>
    PROVE  CompletionInv'
BY DEF CompletionInv, IndexSound, CountersSound, DrainSound, Recorded, Committed,
       GpuFinished

LEMMA NextCompletion == IInv /\ CompletionInv /\ [Next]_vars => CompletionInv'
<1> SUFFICES ASSUME IInv, CompletionInv, [Next]_vars PROVE CompletionInv'
  OBVIOUS
<1>1. ASSUME NEW s \in Slots, BeginMake(s) PROVE CompletionInv'
  <2>1. UNCHANGED <<completed, gpuDone, handler>>
    BY <1>1 DEF BeginMake
  <2>2. CASE UnderPressure
    <3>1. Current \in Slots /\ Open(Current) /\ CommitLease(Current)
      BY <1>1, <2>2, SubmissionAssumption DEF BeginMake, UnderPressure
    <3>2. QED
      BY <2>1, <3>1, CommitKeepsCompletion
  <2>3. CASE ~UnderPressure
    BY <1>1, <2>1, <2>3, RestKeepsCompletion DEF BeginMake
  <2>4. QED
    BY <2>2, <2>3
<1>2. ASSUME NEW s \in Slots, Commit(s) \/ CommitAndWait(s) PROVE CompletionInv'
  <2>1. Open(s) /\ CommitLease(s) /\ UNCHANGED <<completed, gpuDone, handler>>
    BY <1>2 DEF Commit, CommitAndWait
  <2>2. QED
    BY <2>1, CommitKeepsCompletion
<1>3. ASSUME NEW s \in Slots, Abandon(s) PROVE CompletionInv'
  BY <1>3, RestKeepsCompletion DEF Abandon, queue, thread
<1>4. ASSUME NEW o \in Objects, NEW s \in Slots, Adopt(s, o) \/ AdoptRingFallback(s, o)
      PROVE  CompletionInv'
  BY <1>4, RestKeepsCompletion DEF Adopt, AdoptRingFallback, shared, thread, queue
<1>5. ASSUME SubmitDispatch PROVE CompletionInv'
  <2>1. /\ slot \in Slots /\ Open(slot) /\ CommitLease(slot)
        /\ UNCHANGED <<completed, gpuDone, handler>>
    BY <1>5 DEF SubmitDispatch, Open, IInv, Structure, InsideCall, LeaseShape, TypeOK
  <2>2. QED
    BY <2>1, CommitKeepsCompletion
<1>6. ASSUME Continue, ~EndDrain, ~SubmitDispatch PROVE CompletionInv'
  BY <1>6, RestKeepsCompletion
     DEF Continue, TakeToken, TokenTimeout, CountToken, FinishMake, NilBuffer,
         EndWait, DrainToken, leases, queue, shared
<1>7. ASSUME UNCHANGED vars PROVE CompletionInv'
  BY <1>7, RestKeepsCompletion DEF vars
<1>8. ASSUME Call PROVE CompletionInv'
  BY <1>1, <1>2, <1>3, <1>4, <1>8, DrainKeepsCompletion DEF Call
<1>9. ASSUME Continue PROVE CompletionInv'
  BY <1>6, <1>9, <1>5, DrainKeepsCompletion
<1>10. QED
  BY <1>7, <1>8, <1>9, GpuKeepsCompletion, HandlerKeepsCompletion DEF Next

LEMMA SpecCompletion == Spec => []CompletionInv
BY InitCompletion, NextCompletion, SpecInvariant, PTL DEF Spec

\* The test that renaming a buffer rests on, and what a successful drain means:
\* a position at or below the count of completions belongs to a buffer the GPU
\* is through with, whatever order the handlers ran in; and after a drain that
\* reports success nothing submitted is unfinished or unrecorded.
THEOREM SpecCompletionSound == Spec => []CompletionSound
<1>1. IInv /\ CompletionInv => CompletionSound
  <2> SUFFICES ASSUME IInv, CompletionInv PROVE CompletionSound
    OBVIOUS
  <2>1. /\ index \in [Buffers -> Nat] /\ completed \in Nat /\ gpuDone \in Nat
    BY DEF IInv, Structure, TypeOK
  <2>2. completed <= gpuDone
    BY CompletedBehindGpu DEF IInv, Structure, CompletionInv
  <2>3. WatermarkSound
    BY <2>1, <2>2 DEF WatermarkSound, GpuFinished
  <2>4. QED
    BY <2>3 DEF CompletionSound, CompletionInv
<1>2. QED
  BY <1>1, SpecInvariant, SpecCompletion, PTL

-----------------------------------------------------------------------------
(* RetainedUntilCompleted: who keeps what a buffer reads alive.             *)

\* A buffer that is being recorded, or that the GPU is not through with.
Reading(b) ==
    \/ \E s \in Slots : lease[s].owns /\ lease[s].id = b
    \/ index[b] # 0 /\ ~GpuFinished(b)

\* What c pins is not released while b may be read: c is b, or has released
\* everything it will, or comes later in the queue, or is the buffer of the open
\* current lease and will come later, b being committed or about to be.
Outlasts(c, b) ==
    \/ c = b
    \/ handler[c] = "done"
    \/ index[b] # 0 /\ index[b] < index[c]
    \/ /\ c = lease[Current].id /\ lease[Current].owns
       /\ index[b] # 0 \/ (at = "dispatch" /\ b = lease[slot].id)

Held(b, o) ==
    /\ o \in alive
    /\ \A c \in Buffers : o \in pinned[c] => Outlasts(c, b)

\* What is pinned is alive, and pinned by one buffer, so that releasing the
\* objects of a buffer takes nothing from another; what a buffer may still read
\* is pinned by no buffer that is settled before it.
PinsSound ==
    /\ \A b \in Buffers : pinned[b] \subseteq alive
    /\ \A b, c \in Buffers : b # c => pinned[b] \cap pinned[c] = {}
    /\ \A b \in Buffers : b > allocated => pinned[b] = {} /\ uses[b] = {}

ReadsHeld ==
    \A b \in Buffers : Reading(b) => \A o \in uses[b] \ strayed[b] : Held(b, o)

RetentionInv == PinsSound /\ ReadsHeld

LEMMA InitRetention == Init => RetentionInv
BY DEF Init, RetentionInv, PinsSound, ReadsHeld

\* Committing moves a buffer from its open lease to the end of the queue.
LEMMA CommitKeepsRetention ==
    ASSUME IInv, CompletionInv, RetentionInv, NEW s \in Slots, Open(s), CommitLease(s),
           at = "dispatch" => s = slot /\ s # Current,
           UNCHANGED <<allocated, gpuDone, handler, pinned, alive, uses, strayed>>
    PROVE  RetentionInv'
<1> USE SubmissionAssumption DEF IInv, Structure
<1> DEFINE x == lease[s].id
<1>1. /\ x \in Buffers /\ index[x] = 0 /\ submitted' = submitted + 1
      /\ index' = [index EXCEPT ![x] = submitted + 1]
      /\ lease' = [lease EXCEPT ![s] = SpentLease(x)]
  BY CommitFacts DEF CommitLease
<1>2. index \in [Buffers -> Nat] /\ lease \in [Slots -> Leases] /\ lease[s].owns
      /\ submitted \in Nat /\ Current \in Slots
  BY DEF TypeOK, Open
<1>3. /\ index'[x] = submitted + 1
      /\ \A c \in Buffers : c # x => index'[c] = index[c]
      /\ \A t \in Slots : t # s => lease'[t] = lease[t]
      /\ ~lease'[s].owns
  BY <1>1, <1>2 DEF SpentLease
<1>4. \A c \in Buffers : index[c] \in Nat /\ index[c] <= submitted
  BY <1>2 DEF CompletionInv, IndexSound
<1>5. ASSUME NEW b \in Buffers, Reading(b)' PROVE Reading(b)
  <2>1. CASE \E t \in Slots : lease'[t].owns /\ lease'[t].id = b
    <3>1. PICK t \in Slots : lease'[t].owns /\ lease'[t].id = b
      BY <2>1
    <3>2. lease[t].owns /\ lease[t].id = b
      BY <1>3, <3>1
    <3>3. QED
      BY <3>2 DEF Reading
  <2>2. CASE index'[b] # 0 /\ ~GpuFinished(b)'
    <3>1. CASE b = x
      BY <1>2, <3>1 DEF Reading
    <3>2. CASE b # x
      BY <1>3, <2>2, <3>2 DEF Reading, GpuFinished
    <3>3. QED
      BY <3>1, <3>2
  <2>3. QED
    BY <1>5, <2>1, <2>2 DEF Reading
<1>6. ASSUME NEW b \in Buffers, NEW c \in Buffers, Outlasts(c, b)
      PROVE  Outlasts(c, b)'
  <2>1. CASE c = b \/ handler[c] = "done"
    BY <2>1 DEF Outlasts
  <2>2. CASE index[b] # 0 /\ index[b] < index[c]
    <3>1. index'[b] = index[b] /\ index'[c] = index[c]
      BY <1>1, <1>3, <1>4, <2>2
    <3>2. QED
      BY <2>2, <3>1 DEF Outlasts
  <2>3. CASE /\ c = lease[Current].id /\ lease[Current].owns
             /\ index[b] # 0
    <3>1. index'[b] = index[b]
      BY <1>1, <1>3, <2>3
    <3>2. CASE s = Current
      <4>1. index'[c] = submitted + 1
        BY <1>3, <2>3, <3>2
      <4>2. index'[b] # 0 /\ index'[b] < index'[c]
        BY <1>2, <1>4, <2>3, <3>1, <4>1
      <4>3. QED
        BY <4>2 DEF Outlasts
    <3>3. CASE s # Current
      <4>1. lease'[Current] = lease[Current]
        BY <1>2, <1>3, <3>3
      <4>2. QED
        BY <2>3, <3>1, <4>1 DEF Outlasts
    <3>4. QED
      BY <3>2, <3>3
  <2>4. CASE /\ c = lease[Current].id /\ lease[Current].owns
             /\ at = "dispatch" /\ b = lease[slot].id
    <3>1. b = x /\ s # Current
      BY <2>4
    <3>2. lease'[Current] = lease[Current] /\ index'[b] # 0
      BY <1>2, <1>3, <3>1
    <3>3. QED
      BY <2>4, <3>2 DEF Outlasts
  <2>5. QED
    BY <1>6, <2>1, <2>2, <2>3, <2>4 DEF Outlasts
<1>7. PinsSound'
  BY DEF RetentionInv, PinsSound
<1>8. ASSUME NEW b \in Buffers, Reading(b)', NEW o \in uses'[b] \ strayed'[b]
      PROVE  Held(b, o)'
  <2>1. Held(b, o)
    BY <1>5, <1>8 DEF RetentionInv, ReadsHeld
  <2>2. QED
    BY <1>6, <2>1 DEF Held
<1>9. QED
  BY <1>7, <1>8 DEF RetentionInv, ReadsHeld

\* Replacing a lease: if it was open, its objects go, and its buffer, which was
\* never committed, is read by nobody.  It is not the current one then, so no
\* other buffer counts on what it pins.
LEMMA ReplaceKeepsRetention ==
    ASSUME IInv, RetentionInv, NEW s \in Slots, NEW n \in Leases, Replace(s, n),
           UNCHANGED <<index, gpuDone, handler, uses, strayed>>,
           at # "dispatch", s = Current => ~lease[s].owns,
           \/ n = NoLease /\ allocated' = allocated
           \/ /\ n = NewLease(allocated + 1) /\ allocated' = allocated + 1
              /\ allocated < MaxBuffers /\ ~lease[s].owns
    PROVE  RetentionInv'
<1> USE SubmissionAssumption DEF IInv, Structure
<1>1. /\ lease \in [Slots -> Leases] /\ allocated \in 0 .. MaxBuffers
      /\ pinned \in [Buffers -> SUBSET Objects] /\ alive \subseteq Objects
  BY DEF TypeOK
<1>2. lease' = [lease EXCEPT ![s] = n]
  BY DEF Replace
<1>3. ASSUME NEW b \in Buffers, NEW c \in Buffers, Outlasts(c, b)
      PROVE  Outlasts(c, b)'
  <2>1. lease[Current].owns => lease'[Current] = lease[Current]
    BY <1>1, <1>2
  <2>2. QED
    BY <1>3, <2>1 DEF Outlasts
<1>4. CASE lease[s].owns
  <2>0. PICK x \in Buffers : x = lease[s].id
    BY <1>4, ReplaceFacts
  <2>1. /\ x \in 1 .. allocated /\ index[x] = 0
        /\ x # 0 /\ ~lease[s].retainedMoved
    BY <1>1, <1>4, <2>0, ReplaceFacts DEF LeaseShape
  <2>2. alive' = alive \ pinned[x] /\ pinned' = [pinned EXCEPT ![x] = {}]
    BY <2>0, <2>1 DEF Replace
  <2>3. n = NoLease /\ allocated' = allocated /\ ~lease'[s].owns
    BY <1>1, <1>2, <1>4 DEF NoLease
  <2>4. \A t \in Slots : t # s => lease'[t] = lease[t] /\ lease[t].id # x
    BY <1>1, <1>2, <2>0, <2>1 DEF LeasesDistinct
  <2>5. ASSUME NEW b \in Buffers, Reading(b)' PROVE Reading(b) /\ b # x
    <3>1. CASE \E t \in Slots : lease'[t].owns /\ lease'[t].id = b
      <4>1. PICK t \in Slots : lease'[t].owns /\ lease'[t].id = b
        BY <3>1
      <4>2. t # s
        BY <2>3, <4>1
      <4>3. QED
        BY <2>4, <4>1, <4>2 DEF Reading
    <3>2. CASE index'[b] # 0 /\ ~GpuFinished(b)'
      BY <2>1, <3>2 DEF Reading, GpuFinished
    <3>3. QED
      BY <2>5, <3>1, <3>2 DEF Reading
  <2>6. \A c \in Buffers : pinned'[c] = IF c = x THEN {} ELSE pinned[c]
    BY <1>1, <2>1, <2>2
  <2>7. \A c \in Buffers : pinned'[c] \subseteq alive'
    BY <2>1, <2>2, <2>6 DEF RetentionInv, PinsSound
  <2>8. PinsSound'
    BY <2>3, <2>6, <2>7 DEF RetentionInv, PinsSound
  <2>9. ASSUME NEW b \in Buffers, b # x PROVE ~Outlasts(x, b)
    <3>1. handler[x] = "none"
      BY <2>1 DEF HandlerShape
    <3>2. ~(index[b] # 0 /\ index[b] < index[x])
      BY <2>1 DEF TypeOK
    <3>3. ~(x = lease[Current].id /\ lease[Current].owns)
      BY <1>4, <2>4
    <3>4. QED
      BY <2>9, <3>1, <3>2, <3>3 DEF Outlasts
  <2>10. ASSUME NEW b \in Buffers, Reading(b)', NEW o \in uses'[b] \ strayed'[b]
         PROVE  Held(b, o)'
    <3>1. Held(b, o) /\ b # x
      BY <2>5, <2>10 DEF RetentionInv, ReadsHeld
    <3>2. o \notin pinned[x]
      BY <2>9, <3>1 DEF Held
    <3>3. o \in alive'
      BY <2>2, <3>1, <3>2 DEF Held
    <3>4. ASSUME NEW c \in Buffers, o \in pinned'[c] PROVE Outlasts(c, b)'
      BY <1>3, <2>6, <3>1, <3>4 DEF Held
    <3>5. QED
      BY <3>3, <3>4 DEF Held
  <2>11. QED
    BY <2>8, <2>10 DEF RetentionInv, ReadsHeld
<1>5. CASE ~lease[s].owns
  <2>1. UNCHANGED <<pinned, alive>>
    BY <1>5 DEF Replace, LeaseShape
  <2>2. \A c \in Buffers : c > allocated' => c > allocated
    BY <1>1 DEF Buffers
  <2>3. ASSUME NEW b \in Buffers, Reading(b)' PROVE Reading(b) \/ uses[b] = {}
    <3>1. CASE index'[b] # 0 /\ ~GpuFinished(b)'
      BY <3>1 DEF Reading, GpuFinished
    <3>2. CASE \E t \in Slots : lease'[t].owns /\ lease'[t].id = b
      <4>1. PICK t \in Slots : lease'[t].owns /\ lease'[t].id = b
        BY <3>2
      <4>2. CASE lease'[t] = lease[t]
        BY <4>1, <4>2 DEF Reading
      <4>3. CASE lease'[t] # lease[t]
        <5>1. t = s /\ lease'[t] = n
          BY <1>1, <1>2, <4>3
        <5>2. n = NewLease(allocated + 1)
          BY <4>1, <5>1 DEF NoLease
        <5>3. b = allocated + 1
          BY <4>1, <5>1, <5>2 DEF NewLease
        <5>4. b > allocated
          BY <1>1, <5>3
        <5>5. QED
          BY <5>4 DEF RetentionInv, PinsSound
      <4>4. QED
        BY <4>2, <4>3
    <3>3. QED
      BY <2>3, <3>1, <3>2 DEF Reading
  <2>4. PinsSound'
    BY <2>1, <2>2 DEF RetentionInv, PinsSound
  <2>5. ASSUME NEW b \in Buffers, Reading(b)', NEW o \in uses'[b] \ strayed'[b]
        PROVE  Held(b, o)'
    <3>1. Held(b, o)
      BY <2>3, <2>5 DEF RetentionInv, ReadsHeld
    <3>2. QED
      BY <1>3, <2>1, <3>1 DEF Held
  <2>6. QED
    BY <2>4, <2>5 DEF RetentionInv, ReadsHeld
<1>6. QED
  BY <1>4, <1>5

\* An object was not alive before it is adopted, so nothing pins or reads it; and
\* the buffer that reads it is the one it is adopted by, or one that buffer outlasts.
LEMMA AdoptKeepsRetention ==
    ASSUME IInv, RetentionInv, NEW o \in Objects, NEW s \in Slots,
           Adopt(s, o) \/ AdoptRingFallback(s, o)
    PROVE  RetentionInv'
<1> USE SubmissionAssumption DEF IInv, Structure
<1>1. /\ UNCHANGED <<lease, allocated, index, gpuDone, handler>>
      /\ o \notin alive /\ alive' = alive \cup {o}
      /\ Open(s)
      /\ uses' = [uses EXCEPT ![lease[s].id] = @ \cup {o}]
  BY DEF Adopt, AdoptRingFallback, shared, thread
<1>2. /\ pinned \in [Buffers -> SUBSET Objects] /\ uses \in [Buffers -> SUBSET Objects]
      /\ strayed \in [Buffers -> SUBSET Objects]
      /\ lease \in [Slots -> Leases] /\ allocated \in 0 .. MaxBuffers /\ Current \in Slots
  BY DEF TypeOK
<1>3. PICK x \in Buffers : x = lease[s].id /\ x \in 1 .. allocated
  BY <1>1, <1>2 DEF Open, LeaseShape, Leases, Buffers
<1>4. lease[Current].id # 0 =>
         lease[Current].id \in Buffers /\ lease[Current].id \in 1 .. allocated
  BY <1>2 DEF LeaseShape, Leases, Buffers
<1>5. PICK y \in 0 .. MaxBuffers :
         y = lease[Current].id /\ (y # 0 => y \in Buffers /\ y \in 1 .. allocated)
  BY <1>2, <1>4 DEF Leases
<1>6. PICK P \in SUBSET Buffers :
        /\ P \subseteq 1 .. allocated
        /\ \A c, d \in P : c = d
        /\ \A c \in Buffers : pinned'[c] = IF c \in P THEN pinned[c] \cup {o}
                                                    ELSE pinned[c]
        /\ \A b \in Buffers : strayed[b] \subseteq strayed'[b]
        /\ o \notin strayed'[x] =>
             \A c \in P :
               \/ c = x
               \/ handler[c] = "done"
               \/ /\ c = lease[Current].id /\ lease[Current].owns
                  /\ at' = "dispatch" /\ lease[slot'].id = x
  <2>1. CASE Adopt(s, o)
    <3>1. pinned' = [pinned EXCEPT ![x] = @ \cup {o}] /\ strayed' = strayed
      BY <1>3, <2>1 DEF Adopt
    <3>2. \A c \in Buffers : pinned'[c] = IF c \in {x} THEN pinned[c] \cup {o}
                                                    ELSE pinned[c]
      BY <1>2, <1>3, <3>1
    <3>3. {x} \in SUBSET Buffers /\ {x} \subseteq 1 .. allocated
      BY <1>3
    <3>4. QED
      BY <3>1, <3>2, <3>3
  <2>2. CASE AdoptRingFallback(s, o) /\ UNCHANGED <<pinned, strayed>>
    <3>1. {} \in SUBSET Buffers /\ {} \subseteq 1 .. allocated
      OBVIOUS
    <3>2. QED
      BY <2>2, <3>1
  <2>3. CASE AdoptRingFallback(s, o) /\ ~UNCHANGED <<pinned, strayed>>
    <3>1. /\ at' = "dispatch" /\ slot' = s /\ y # 0
          /\ pinned' = [pinned EXCEPT ![y] = @ \cup {o}]
          /\ strayed' = IF ~Open(Current) /\ handler[y] # "done"
                        THEN [strayed EXCEPT ![x] = @ \cup {o}] ELSE strayed
      BY <1>3, <1>5, <2>3 DEF AdoptRingFallback
    <3>2. \A c \in Buffers : pinned'[c] = IF c \in {y} THEN pinned[c] \cup {o}
                                                    ELSE pinned[c]
      BY <1>2, <1>5, <3>1
    <3>3. {y} \in SUBSET Buffers /\ {y} \subseteq 1 .. allocated
      BY <1>5, <3>1
    <3>4. \A b \in Buffers : strayed[b] \subseteq strayed'[b]
      BY <1>2, <3>1
    <3>5. ASSUME o \notin strayed'[x] PROVE Open(Current) \/ handler[y] = "done"
      BY <1>2, <3>1, <3>5
    <3>6. o \notin strayed'[x] =>
             \/ handler[y] = "done"
             \/ /\ y = lease[Current].id /\ lease[Current].owns
                /\ at' = "dispatch" /\ lease[slot'].id = x
      BY <1>3, <1>5, <3>1, <3>5 DEF Open
    <3>7. QED
      BY <3>2, <3>3, <3>4, <3>6
  <2>4. QED
    BY <2>1, <2>2, <2>3
<1>7. \A b \in Buffers : Reading(b)' <=> Reading(b)
  BY <1>1 DEF Reading, GpuFinished
<1>8. ASSUME NEW b \in Buffers, NEW c \in Buffers, Outlasts(c, b)
      PROVE  Outlasts(c, b)'
  <2>1. at = "dispatch" => at' = "dispatch" /\ slot' = slot
    BY DEF Adopt, AdoptRingFallback, thread
  <2>2. QED
    BY <1>1, <1>8, <2>1 DEF Outlasts
<1>9. \A c \in Buffers : o \notin pinned[c]
  BY <1>1 DEF RetentionInv, PinsSound
<1>10. PinsSound'
  <2>1. ASSUME NEW c \in Buffers PROVE pinned'[c] \subseteq alive'
    <3>1. pinned[c] \subseteq alive
      BY DEF RetentionInv, PinsSound
    <3>2. QED
      BY <1>1, <1>6, <3>1
  <2>2. ASSUME NEW c \in Buffers, NEW d \in Buffers, c # d
        PROVE  pinned'[c] \cap pinned'[d] = {}
    <3>1. pinned[c] \cap pinned[d] = {} /\ o \notin pinned[c] /\ o \notin pinned[d]
      BY <1>9, <2>2 DEF RetentionInv, PinsSound
    <3>2. QED
      BY <1>6, <2>2, <3>1
  <2>3. ASSUME NEW c \in Buffers, c > allocated' PROVE pinned'[c] = {} /\ uses'[c] = {}
    <3>1. c \notin P /\ c # x /\ c > allocated
      BY <1>1, <1>2, <1>3, <1>6, <2>3 DEF Buffers
    <3>2. uses'[c] = uses[c] /\ pinned'[c] = pinned[c]
      BY <1>1, <1>2, <1>3, <1>6, <3>1
    <3>3. QED
      BY <3>1, <3>2 DEF RetentionInv, PinsSound
  <2>4. QED
    BY <2>1, <2>2, <2>3 DEF PinsSound
<1>11. ASSUME NEW b \in Buffers, Reading(b)', NEW u \in uses'[b] \ strayed'[b]
       PROVE  Held(b, u)'
  <2>1. CASE u \in uses[b]
    <3>1. Held(b, u)
      BY <1>6, <1>7, <1>11, <2>1 DEF RetentionInv, ReadsHeld
    <3>2. u # o
      BY <1>1, <3>1 DEF Held
    <3>3. ASSUME NEW c \in Buffers, u \in pinned'[c] PROVE Outlasts(c, b)'
      BY <1>8, <1>6, <3>1, <3>2, <3>3 DEF Held
    <3>4. QED
      BY <1>1, <3>1, <3>3 DEF Held
  <2>2. CASE u \notin uses[b]
    <3>1. b = x /\ u = o
      BY <1>1, <1>2, <1>3, <1>11, <2>2
    <3>2. ASSUME NEW c \in Buffers, o \in pinned'[c] PROVE Outlasts(c, x)'
      <4>1. c \in P /\ o \notin strayed'[x]
        BY <1>6, <1>9, <1>11, <3>1, <3>2
      <4>2. \/ c = x
            \/ handler[c] = "done"
            \/ /\ c = lease[Current].id /\ lease[Current].owns
               /\ at' = "dispatch" /\ lease[slot'].id = x
        BY <1>6, <4>1
      <4>3. QED
        BY <1>1, <4>2 DEF Outlasts
    <3>3. QED
      BY <1>1, <3>1, <3>2 DEF Held
  <2>3. QED
    BY <2>1, <2>2
<1>12. QED
  BY <1>10, <1>11 DEF RetentionInv, ReadsHeld

\* A handler releases the objects of its own buffer, and last of all: every buffer
\* still read is outlasted by those that pin what it reads.
LEMMA HandlerKeepsRetention ==
    ASSUME IInv, CompletionInv, RetentionInv, NEW x \in Buffers, Handler(x)
    PROVE  RetentionInv'
<1> USE SubmissionAssumption DEF IInv, Structure
<1>1. UNCHANGED <<lease, allocated, index, gpuDone, uses, strayed, at, slot>>
  BY DEF Handler, RecordCompleted, UncountToken, SignalToken, ReleaseRetained,
         leases, shared, thread
<1>2. /\ handler \in [Buffers -> Stages] /\ allocated \in 0 .. MaxBuffers
      /\ pinned \in [Buffers -> SUBSET Objects] /\ index \in [Buffers -> Nat]
      /\ gpuDone \in Nat
  BY DEF TypeOK
<1>3. \A b \in Buffers : Reading(b)' <=> Reading(b)
  BY <1>1 DEF Reading, GpuFinished
<1>4. \A c \in Buffers : handler[c] = "done" => handler'[c] = "done"
  BY <1>2 DEF Handler, RecordCompleted, UncountToken, SignalToken, ReleaseRetained
<1>5. \A b, c \in Buffers : Outlasts(c, b) => Outlasts(c, b)'
  BY <1>1, <1>4 DEF Outlasts
<1>6. CASE ReleaseRetained(x)
  <2>1. /\ handler[x] = "signalled"
        /\ pinned' = [pinned EXCEPT ![x] = {}] /\ alive' = alive \ pinned[x]
    BY <1>6 DEF ReleaseRetained
  <2>2. GpuFinished(x) /\ index[x] # 0
    BY <2>1 DEF CompletionInv, CountersSound, HandlerShape
  <2>3. ASSUME NEW b \in Buffers, Reading(b) PROVE ~Outlasts(x, b)
    <3>1. index[b] = 0 \/ ~GpuFinished(b)
      BY <2>3 DEF Reading, OpenUncommitted
    <3>2. b # x
      BY <2>2, <3>1
    <3>3. ~(index[b] # 0 /\ index[b] < index[x])
      BY <1>2, <2>2, <3>1 DEF GpuFinished
    <3>4. ~(x = lease[Current].id /\ lease[Current].owns)
      BY <2>2 DEF OpenUncommitted
    <3>5. QED
      BY <2>1, <3>2, <3>3, <3>4 DEF Outlasts
  <2>4. \A c \in Buffers : pinned'[c] = IF c = x THEN {} ELSE pinned[c]
    BY <1>2, <2>1
  <2>5. \A c \in Buffers : pinned'[c] \subseteq alive'
    BY <2>1, <2>4 DEF RetentionInv, PinsSound
  <2>6. PinsSound'
    BY <1>1, <2>4, <2>5 DEF RetentionInv, PinsSound
  <2>7. ASSUME NEW b \in Buffers, Reading(b)', NEW o \in uses'[b] \ strayed'[b]
        PROVE  Held(b, o)'
    <3>1. Reading(b) /\ Held(b, o)
      BY <1>1, <1>3, <2>7 DEF RetentionInv, ReadsHeld
    <3>2. o \notin pinned[x]
      BY <2>3, <3>1 DEF Held
    <3>3. ASSUME NEW c \in Buffers, o \in pinned'[c] PROVE Outlasts(c, b)'
      BY <1>5, <2>4, <3>1, <3>3 DEF Held
    <3>4. QED
      BY <2>1, <3>1, <3>2, <3>3 DEF Held
  <2>8. QED
    BY <2>6, <2>7 DEF RetentionInv, ReadsHeld
<1>7. CASE ~ReleaseRetained(x)
  <2>1. UNCHANGED <<pinned, alive>>
    BY <1>7 DEF Handler, RecordCompleted, UncountToken, SignalToken, leases
  <2>2. PinsSound'
    BY <1>1, <2>1 DEF RetentionInv, PinsSound
  <2>3. ASSUME NEW b \in Buffers, Reading(b)', NEW o \in uses'[b] \ strayed'[b]
        PROVE  Held(b, o)'
    <3>1. Held(b, o)
      BY <1>1, <1>3, <2>3 DEF RetentionInv, ReadsHeld
    <3>2. QED
      BY <1>5, <2>1, <3>1 DEF Held
  <2>4. QED
    BY <2>2, <2>3 DEF RetentionInv, ReadsHeld
<1>8. QED
  BY <1>6, <1>7

\* Steps that touch neither objects nor open leases, and leave a dispatch alone.
LEMMA RestKeepsRetention ==
    ASSUME RetentionInv, TypeOK, InsideCall,
           UNCHANGED <<allocated, index, handler, pinned, alive, uses, strayed>>,
           gpuDone' \in Nat, gpuDone' >= gpuDone,
           at = "dispatch" => at' = "dispatch" /\ slot' = slot,
           \A s \in Slots :
             lease'[s] = lease[s] \/ (~lease'[s].owns /\ ~lease[s].owns)
    PROVE  RetentionInv'
<1>1. gpuDone \in Nat /\ index \in [Buffers -> Nat] /\ Current \in Slots
  BY SubmissionAssumption DEF TypeOK
<1>2. ASSUME NEW b \in Buffers, Reading(b)' PROVE Reading(b)
  <2>1. ~GpuFinished(b)' => ~GpuFinished(b)
    BY <1>1 DEF GpuFinished
  <2>2. QED
    BY <1>2, <2>1 DEF Reading
<1>3. ASSUME NEW b \in Buffers, NEW c \in Buffers, Outlasts(c, b)
      PROVE  Outlasts(c, b)'
  <2>1. at = "dispatch" => at' = "dispatch" /\ lease'[slot'] = lease[slot]
    BY DEF InsideCall, TypeOK
  <2>2. QED
    BY <1>1, <1>3, <2>1 DEF Outlasts
<1>4. PinsSound'
  BY DEF RetentionInv, PinsSound
<1>5. ASSUME NEW b \in Buffers, Reading(b)', NEW o \in uses'[b] \ strayed'[b]
      PROVE  Held(b, o)'
  BY <1>2, <1>3, <1>5 DEF RetentionInv, ReadsHeld, Held
<1>6. QED
  BY <1>4, <1>5 DEF RetentionInv, ReadsHeld

LEMMA NextRetention ==
    IInv /\ CompletionInv /\ RetentionInv /\ [Next]_vars => RetentionInv'
<1> SUFFICES ASSUME IInv, CompletionInv, RetentionInv, [Next]_vars PROVE RetentionInv'
  OBVIOUS
<1>1. /\ TypeOK /\ InsideCall /\ slot \in Slots /\ lease \in [Slots -> Leases]
      /\ allocated \in 0 .. MaxBuffers /\ gpuDone \in Nat
  BY DEF IInv, Structure, TypeOK
<1>2. ASSUME NEW s \in Slots, BeginMake(s) PROVE RetentionInv'
  <2>1. UNCHANGED <<allocated, gpuDone, handler, pinned, alive, uses, strayed>>
        /\ at = "idle"
    BY <1>2 DEF BeginMake
  <2>2. CASE UnderPressure
    <3>1. Current \in Slots /\ Open(Current) /\ CommitLease(Current)
      BY <1>2, <2>2, SubmissionAssumption DEF BeginMake, UnderPressure
    <3>2. QED
      BY <2>1, <3>1, CommitKeepsRetention
  <2>3. CASE ~UnderPressure
    <3>1. UNCHANGED <<index, lease>>
      BY <1>2, <2>3 DEF BeginMake
    <3>2. QED
      BY <1>1, <2>1, <3>1, RestKeepsRetention
  <2>4. QED
    BY <2>2, <2>3
<1>3. ASSUME NEW s \in Slots,
             Commit(s) \/ CommitAndWait(s) \/ (SubmitDispatch /\ s = slot)
      PROVE  RetentionInv'
  <2>1. /\ Open(s) /\ CommitLease(s)
        /\ at = "dispatch" => s = slot /\ s # Current
        /\ UNCHANGED <<allocated, gpuDone, handler, pinned, alive, uses, strayed>>
    BY <1>3 DEF Commit, CommitAndWait, SubmitDispatch, Open, IInv, Structure,
                InsideCall, LeaseShape
  <2>2. QED
    BY <2>1, CommitKeepsRetention
<1>4. NoLease \in Leases
  BY SubmissionAssumption DEF NoLease, Leases
<1>5. ASSUME NEW s \in Slots, Abandon(s) PROVE RetentionInv'
  <2>1. /\ Replace(s, NoLease) /\ at = "idle"
        /\ UNCHANGED <<allocated, index, gpuDone, handler, uses, strayed>>
    BY <1>5 DEF Abandon, queue
  <2>2. s = Current => ~lease[s].owns
    BY <1>5 DEF Abandon, Open, IInv, Structure, LeaseShape
  <2>3. QED
    BY <1>4, <2>1, <2>2, ReplaceKeepsRetention
<1>6. ASSUME TokenTimeout PROVE RetentionInv'
  <2>1. /\ Replace(slot, NoLease) /\ at = "token" /\ ~lease[slot].owns
        /\ UNCHANGED <<allocated, index, gpuDone, handler, uses, strayed>>
    BY <1>6 DEF TokenTimeout, queue, IInv, Structure, InsideCall
  <2>2. QED
    BY <1>1, <1>4, <2>1, ReplaceKeepsRetention
<1>7. ASSUME FinishMake PROVE RetentionInv'
  <2>1. ~lease[slot].owns /\ allocated < MaxBuffers
    BY <1>7 DEF FinishMake, IInv, Structure, InsideCall
  <2>2. NewLease(allocated + 1) \in Leases
    BY <1>1, <2>1, SubmissionAssumption DEF NewLease, Leases
  <2>3. /\ Replace(slot, NewLease(allocated + 1)) /\ at = "alloc"
        /\ allocated' = allocated + 1
        /\ UNCHANGED <<index, gpuDone, handler, uses, strayed>>
    BY <1>7 DEF FinishMake
  <2>4. QED
    BY <1>1, <2>1, <2>2, <2>3, ReplaceKeepsRetention
<1>8. ASSUME NilBuffer PROVE RetentionInv'
  <2>1. /\ at = "alloc" /\ ~lease[slot].owns
        /\ lease' = [lease EXCEPT ![slot] = NoLease]
        /\ UNCHANGED <<allocated, index, gpuDone, handler, pinned, alive, uses, strayed>>
    BY <1>8 DEF NilBuffer, queue, IInv, Structure, InsideCall
  <2>2. \A s \in Slots : lease'[s] = IF s = slot THEN NoLease ELSE lease[s]
    BY <1>1, <2>1
  <2>3. ~NoLease.owns
    BY DEF NoLease
  <2>4. \A s \in Slots :
           lease'[s] = lease[s] \/ (~lease'[s].owns /\ ~lease[s].owns)
    BY <2>1, <2>2, <2>3
  <2>5. gpuDone' \in Nat /\ gpuDone' >= gpuDone
    BY <1>1, <2>1
  <2>6. at = "dispatch" => at' = "dispatch" /\ slot' = slot
    BY <2>1
  <2>7. TypeOK /\ InsideCall
        /\ UNCHANGED <<allocated, index, handler, pinned, alive, uses, strayed>>
    BY <1>1, <2>1
  <2>8. QED
    BY ONLY RetentionInv, <2>4, <2>5, <2>6, <2>7, RestKeepsRetention
<1>9. ASSUME TakeToken \/ CountToken \/ EndWait \/ BeginDrain \/ DrainToken \/ EndDrain
             \/ GpuFinish \/ UNCHANGED vars
      PROVE  RetentionInv'
  <2>1. UNCHANGED <<lease, allocated, index, handler, pinned, alive, uses, strayed>>
    BY <1>9 DEF TakeToken, CountToken, EndWait, BeginDrain, DrainToken, EndDrain,
                GpuFinish, vars, leases, queue
  <2>2. gpuDone' \in Nat /\ gpuDone' >= gpuDone
    BY <1>1, <1>9 DEF TakeToken, CountToken, EndWait, BeginDrain, DrainToken, EndDrain,
                      GpuFinish, vars, queue
  <2>3. at = "dispatch" => at' = "dispatch" /\ slot' = slot
    BY <1>9 DEF TakeToken, CountToken, EndWait, BeginDrain, DrainToken, EndDrain,
                GpuFinish, vars, thread
  <2>4. QED
    BY <1>1, <2>1, <2>2, <2>3, RestKeepsRetention
<1>10. ASSUME Call PROVE RetentionInv'
  BY <1>2, <1>3, <1>5, <1>9, <1>10, AdoptKeepsRetention DEF Call
<1>11. ASSUME Continue PROVE RetentionInv'
  BY <1>1, <1>3, <1>6, <1>7, <1>8, <1>9, <1>11 DEF Continue
<1>12. QED
  BY <1>9, <1>10, <1>11, HandlerKeepsRetention DEF Next

LEMMA SpecRetention == Spec => []RetentionInv
BY InitRetention, NextRetention, SpecInvariant, SpecCompletion, PTL DEF Spec

\* What a committed buffer reads stays alive until the GPU has finished it,
\* whichever of the lease, the handler and a dispatch that found the ring full
\* adopts, hands on and releases objects, and in whatever order: an object that a
\* dispatch hands to an open current lease is released by a handler that comes
\* later in the queue.  Handed to a current lease already committed it strays, and
\* nothing is said of it.
THEOREM SpecRetainedUntilCompleted == Spec => []RetainedUntilCompleted
<1>1. RetentionInv => RetainedUntilCompleted
  BY DEF RetentionInv, ReadsHeld, Reading, Held, RetainedUntilCompleted
<1>2. QED
  BY <1>1, SpecRetention, PTL

-----------------------------------------------------------------------------
(* AliveWhileOutstanding: nothing adopted outlives its command buffer.      *)

\* Replacing a lease releases what its buffer pins, if anything, and nothing of
\* another buffer.
LEMMA ReplaceKeepsAlive ==
    ASSUME IInv, AliveWhileOutstanding, NEW s \in Slots, NEW n, Replace(s, n),
           UNCHANGED handler, allocated' \in {allocated, allocated + 1}
    PROVE  AliveWhileOutstanding'
<1> USE SubmissionAssumption DEF IInv, Structure
<1>1. /\ lease \in [Slots -> Leases] /\ allocated \in 0 .. MaxBuffers
      /\ pinned \in [Buffers -> SUBSET Objects]
  BY DEF TypeOK
<1> SUFFICES ASSUME NEW o \in alive'
             PROVE  \E b \in 1 .. allocated' : o \in pinned'[b] /\ handler'[b] # "done"
  BY DEF AliveWhileOutstanding
<1>2. o \in alive
  BY DEF Replace
<1>3. PICK b \in 1 .. allocated : o \in pinned[b] /\ handler[b] # "done"
  BY <1>2 DEF AliveWhileOutstanding
<1>4. b \in Buffers /\ b \in 1 .. allocated'
  BY <1>1 DEF Buffers
<1>5. o \in pinned'[b]
  <2>1. CASE lease[s].id # 0 /\ ~lease[s].retainedMoved
    <3>1. alive' = alive \ pinned[lease[s].id]
          /\ pinned' = [pinned EXCEPT ![lease[s].id] = {}]
      BY <2>1 DEF Replace
    <3>2. b # lease[s].id
      BY <1>3, <3>1
    <3>3. QED
      BY <1>1, <1>3, <1>4, <3>1, <3>2
  <2>2. CASE ~(lease[s].id # 0 /\ ~lease[s].retainedMoved)
    <3>1. pinned' = pinned
      BY <2>2 DEF Replace
    <3>2. QED
      BY <1>3, <3>1
  <2>3. QED
    BY <2>1, <2>2
<1>6. QED
  BY <1>3, <1>4, <1>5

\* An object adopted by an open lease is pinned by its buffer.
LEMMA AdoptKeepsAlive ==
    ASSUME IInv, AliveWhileOutstanding, NEW s \in Slots, NEW o \in Objects, Adopt(s, o)
    PROVE  AliveWhileOutstanding'
<1> USE SubmissionAssumption DEF IInv, Structure
<1>1. /\ lease \in [Slots -> Leases] /\ allocated \in 0 .. MaxBuffers
      /\ pinned \in [Buffers -> SUBSET Objects]
  BY DEF TypeOK
<1>2. PICK c \in Buffers : c = lease[s].id /\ c \in 1 .. allocated
  BY <1>1 DEF Adopt, Open, LeaseShape, Leases, Buffers
<1>3. /\ UNCHANGED <<allocated, handler>> /\ alive' = alive \cup {o}
      /\ pinned' = [pinned EXCEPT ![c] = @ \cup {o}]
  BY <1>2 DEF Adopt
<1>4. handler[c] # "done"
  BY <1>2 DEF Adopt, Open, OpenUncommitted, HandlerShape
<1>5. ASSUME NEW b \in 1 .. allocated PROVE pinned[b] \subseteq pinned'[b]
  BY <1>1, <1>3 DEF Buffers
<1>6. o \in pinned'[c]
  BY <1>1, <1>3
<1>7. QED
  BY <1>2, <1>3, <1>4, <1>5, <1>6 DEF AliveWhileOutstanding

\* A handler releases exactly what only its buffer holds.
LEMMA HandlerKeepsAlive ==
    ASSUME IInv, RetentionInv, AliveWhileOutstanding, NEW b \in Buffers, Handler(b)
    PROVE  AliveWhileOutstanding'
<1> USE SubmissionAssumption DEF IInv, Structure
<1>1. /\ handler \in [Buffers -> Stages] /\ allocated \in 0 .. MaxBuffers
      /\ pinned \in [Buffers -> SUBSET Objects] /\ 1 .. allocated \subseteq Buffers
  BY DEF TypeOK, Buffers
<1>2. UNCHANGED allocated
  BY DEF Handler, RecordCompleted, UncountToken, SignalToken, ReleaseRetained
<1>3. CASE ReleaseRetained(b)
  <2>1. /\ handler' = [handler EXCEPT ![b] = "done"]
        /\ pinned' = [pinned EXCEPT ![b] = {}] /\ alive' = alive \ pinned[b]
    BY <1>3 DEF ReleaseRetained
  <2>2. ASSUME NEW o \in alive'
        PROVE  \E c \in 1 .. allocated : o \in pinned'[c] /\ handler'[c] # "done"
    <3>1. PICK c \in 1 .. allocated : o \in pinned[c] /\ handler[c] # "done"
      BY <2>1, <2>2 DEF AliveWhileOutstanding
    <3>2. c # b /\ c \in Buffers
      BY <1>1, <2>1, <2>2, <3>1
    <3>3. QED
      BY <1>1, <2>1, <3>1, <3>2
  <2>3. QED
    BY <1>2, <2>2 DEF AliveWhileOutstanding
<1>4. CASE ~ReleaseRetained(b)
  <2>1. /\ UNCHANGED <<pinned, alive>>
        /\ \E h \in Stages \ {"done"} : handler' = [handler EXCEPT ![b] = h]
    BY <1>4 DEF Handler, RecordCompleted, UncountToken, SignalToken, leases, Stages
  <2>2. \A c \in 1 .. allocated : handler[c] # "done" => handler'[c] # "done"
    BY <1>1, <2>1
  <2>3. QED
    BY <1>2, <2>1, <2>2 DEF AliveWhileOutstanding
<1>5. QED
  BY <1>3, <1>4

\* "Bounding transient Metal resources by the outstanding command-buffer count":
\* every object that is alive belongs to a buffer that is leased, queued or whose
\* handler is still to release it.  A compute dispatch that overflows the ring
\* hands objects to the current lease whatever state that is in, so the theorem is
\* about a ring that does not overflow.
THEOREM SpecAliveWhileOutstanding ==
    ASSUME RingFallback = FALSE
    PROVE  Spec => []AliveWhileOutstanding
<1>1. Init => AliveWhileOutstanding
  BY DEF Init, AliveWhileOutstanding
<1>2. IInv /\ RetentionInv /\ AliveWhileOutstanding /\ [Next]_vars
        => AliveWhileOutstanding'
  <2> SUFFICES ASSUME IInv, RetentionInv, AliveWhileOutstanding, [Next]_vars
               PROVE  AliveWhileOutstanding'
    OBVIOUS
  <2>1. slot \in Slots
    BY DEF IInv, Structure, TypeOK
  <2>2. ASSUME NEW s \in Slots, Abandon(s) PROVE AliveWhileOutstanding'
    BY <2>2, ReplaceKeepsAlive DEF Abandon, queue
  <2>3. ASSUME TokenTimeout PROVE AliveWhileOutstanding'
    BY <2>1, <2>3, ReplaceKeepsAlive DEF TokenTimeout, queue
  <2>4. ASSUME FinishMake PROVE AliveWhileOutstanding'
    BY <2>1, <2>4, ReplaceKeepsAlive DEF FinishMake
  <2>5. ASSUME (\E s \in Slots : BeginMake(s) \/ Commit(s) \/ CommitAndWait(s))
               \/ TakeToken \/ CountToken \/ NilBuffer \/ SubmitDispatch \/ EndWait
               \/ BeginDrain \/ DrainToken \/ EndDrain \/ GpuFinish \/ UNCHANGED vars
        PROVE  AliveWhileOutstanding'
    <3>1. UNCHANGED <<allocated, pinned, handler, alive>>
      BY <2>5 DEF BeginMake, Commit, CommitAndWait, TakeToken, CountToken, NilBuffer,
                  SubmitDispatch, EndWait, BeginDrain, DrainToken, EndDrain, GpuFinish, vars, leases, queue
    <3>2. QED
      BY <3>1 DEF AliveWhileOutstanding
  <2>6. ASSUME Call PROVE AliveWhileOutstanding'
    <3>1. \A s \in Slots, o \in Objects : ~AdoptRingFallback(s, o)
      BY DEF AdoptRingFallback
    <3>2. QED
      BY <2>2, <2>5, <2>6, <3>1, AdoptKeepsAlive DEF Call
  <2>7. ASSUME Continue PROVE AliveWhileOutstanding'
    BY <2>3, <2>4, <2>5, <2>7 DEF Continue
  <2>8. QED
    BY <2>5, <2>6, <2>7, HandlerKeepsAlive DEF Next
<1>3. QED
  BY <1>1, <1>2, SpecInvariant, SpecRetention, PTL DEF Spec

-----------------------------------------------------------------------------
(* PoolSafety: the layer implements CommandBufferPool.                     *)

\* Where each buffer is, spelt out for the values a buffer can have.
LEMMA LifeIs ==
    ASSUME IInv, NEW b \in Buffers
    PROVE  /\ Life[b] = "unborn" <=> b > allocated
           /\ Life[b] = "settled" <=> b <= allocated /\ b \notin Holders
           /\ Life[b] = "leased" <=> b \in Holders /\ index[b] = 0
           /\ Life[b] = "submitted" <=>
                b \in Holders /\ index[b] # 0 /\ handler[b] = "none"
           /\ Life[b] = "finished" <=>
                b \in Holders /\ index[b] # 0 /\ handler[b] # "none"
           /\ Life[b] \in {"unborn", "settled", "leased", "submitted", "finished"}
<1>1. b \in Nat /\ b >= 1 /\ allocated \in Nat
  BY SubmissionAssumption DEF IInv, Structure, TypeOK, Buffers
<1>2. b \in Holders => b <= allocated
  BY <1>1 DEF Holders
<1>3. QED
  BY <1>1, <1>2 DEF Life

\* The outstanding buffers of the pool are those whose token is out.
LEMMA OutstandingIs ==
    ASSUME IInv PROVE Pool!Outstanding = Holders
<1>1. Holders \subseteq Buffers
  BY SubmissionAssumption DEF IInv, Structure, TypeOK, Holders, Buffers
<1>2. \A b \in Buffers : Life[b] \in {"leased", "submitted", "finished"} <=> b \in Holders
  BY LifeIs
<1>3. QED
  BY <1>1, <1>2 DEF Pool!Outstanding

\* A step moves one buffer, or none, of the pool.
LEMMA OneMoves ==
    ASSUME IInv, NEW b \in Buffers,
           \A c \in Buffers \ {b} :
               /\ (c > allocated')  <=> (c > allocated)
               /\ c \in Holders' <=> c \in Holders
               /\ (index'[c] = 0) <=> (index[c] = 0)
               /\ handler'[c] = "none" <=> handler[c] = "none"
    PROVE  Life' = [Life EXCEPT ![b] = Life'[b]]
<1>1. \A c \in Buffers \ {b} : Life'[c] = Life[c]
  BY DEF Life
<1>2. QED
  BY <1>1 DEF Life

LEMMA NoneMoves ==
    ASSUME IInv,
           \A c \in Buffers :
               /\ (c > allocated')  <=> (c > allocated)
               /\ c \in Holders' <=> c \in Holders
               /\ (index'[c] = 0) <=> (index[c] = 0)
               /\ handler'[c] = "none" <=> handler[c] = "none"
    PROVE  Life' = Life
BY DEF Life

\* Committing an open lease submits its buffer.
LEMMA CommitSubmits ==
    ASSUME IInv, IInv', NEW s \in Slots, Open(s), CommitLease(s),
           UNCHANGED <<allocated, released, handler>>
    PROVE  Pool!PoolNext
<1> USE DEF IInv, Structure
<1>1. PICK b \in Buffers : /\ b = lease[s].id /\ b \in 1 .. allocated /\ index[b] = 0
                           /\ ~released[b] /\ drained' = FALSE
                           /\ submitted' # 0
                           /\ index' = [index EXCEPT ![b] = submitted']
  BY CommitFacts
<1>2. Holders' = Holders /\ b \in Holders
  BY <1>1 DEF Holders
<1>3. index \in [Buffers -> Nat]
  BY DEF TypeOK
<1>4. index'[b] # 0 /\ handler[b] = "none"
  BY <1>1, <1>3 DEF HandlerShape
<1>5. Life' = [Life EXCEPT ![b] = Life'[b]]
  BY <1>1, <1>2, <1>3, OneMoves
<1>6. Life[b] = "leased"
  BY <1>1, <1>2, LifeIs
<1>7. Life'[b] = "submitted"
  <2>1. ~(b > allocated')
    BY <1>1 DEF TypeOK
  <2>2. QED
    BY <1>1, <1>2, <1>4, <2>1 DEF Life
<1>8. Pool!Submit(b)
  BY <1>1, <1>5, <1>6, <1>7 DEF Pool!Submit
<1>9. QED
  BY <1>8 DEF Pool!PoolNext

\* Giving up an open lease settles its buffer.
LEMMA AbandonSettles ==
    ASSUME IInv, NEW s \in Slots, Replace(s, NoLease),
           UNCHANGED <<allocated, index, handler, drained>>
    PROVE  Pool!PoolNext \/ UNCHANGED Pool!poolVars
<1> USE DEF IInv, Structure
<1>1. CASE ~lease[s].owns
  <2>1. Holders' = Holders
    BY <1>1, DropKeepsShape
  <2>2. Life' = Life
    BY <2>1, NoneMoves
  <2>3. QED
    BY <2>2 DEF Pool!poolVars
<1>2. CASE lease[s].owns
  <2>1. PICK b \in Buffers : b = lease[s].id /\ Holders' = Holders \ {b} /\ b \in Counted
    BY <1>2, DropKeepsShape
  <2>2. b \in Holders /\ index[b] = 0 /\ b \in 1 .. allocated
    BY <1>2, <2>1 DEF Counted, Holders, OpenUncommitted
  <2>3. Life' = [Life EXCEPT ![b] = Life'[b]]
    BY <2>1, OneMoves
  <2>4. Life[b] = "leased"
    BY <2>2, LifeIs
  <2>5. Life'[b] = "settled"
    <3>1. ~(b > allocated)
      BY <2>2 DEF TypeOK
    <3>2. QED
      BY <2>1, <2>2, <3>1 DEF Life
  <2>6. Pool!Settle(b)
    BY <2>3, <2>4, <2>5 DEF Pool!Settle
  <2>7. QED
    BY <2>6 DEF Pool!PoolNext
<1>3. QED
  BY <1>1, <1>2

\* Making a buffer issues it: the token taken for it leaves room in the pool.
LEMMA FinishMakeIssues ==
    ASSUME IInv, FinishMake PROVE Pool!PoolNext
<1> USE SubmissionAssumption DEF IInv, Structure
<1>1. /\ Replace(slot, NewLease(allocated + 1)) /\ slot \in Slots
      /\ allocated' = allocated + 1
      /\ UNCHANGED <<index, handler, drained>>
      /\ at = "alloc" /\ ~lease[slot].owns /\ allocated < MaxBuffers
  BY DEF FinishMake, TypeOK, InsideCall
<1>2. allocated \in 0 .. MaxBuffers /\ sem \in Nat
  BY DEF TypeOK
<1>3. PICK b \in Buffers : b = allocated + 1
  BY <1>1, <1>2 DEF Buffers
<1>4. NewLease(allocated + 1) \in Leases
  BY <1>1, <1>2 DEF NewLease, Leases
<1>5. released' = released
  BY <1>1, <1>4, ReplaceFacts
<1>6. /\ index[b] = 0 /\ ~released[b]
  BY <1>2, <1>3 DEF UnbornUntouched
<1>7. Holders' = Holders \cup {b} /\ b \notin Holders
  <2>1. 1 .. allocated' = (1 .. allocated) \cup {b} /\ b \notin 1 .. allocated
    BY <1>1, <1>2, <1>3
  <2>2. QED
    BY <1>1, <1>5, <1>6, <2>1 DEF Holders
<1>8. Cardinality(Holders) < Bound
  BY <1>1, <1>2, TokenSetsFinite DEF TokensConserved, InHand
<1>9. Life' = [Life EXCEPT ![b] = Life'[b]]
  <2>1. \A c \in Buffers \ {b} : c > allocated' <=> c > allocated
    BY <1>1, <1>2, <1>3 DEF Buffers
  <2>2. QED
    BY <1>1, <1>7, <2>1, OneMoves
<1>10. Life[b] = "unborn"
  BY <1>2, <1>3, LifeIs
<1>11. Life'[b] = "leased"
  <2>1. ~(b > allocated')
    BY <1>1, <1>2, <1>3
  <2>2. QED
    BY <1>1, <1>6, <1>7, <2>1 DEF Life
<1>12. Pool!Issue(b)
  <2>1. Pool!Cardinality(Holders) = Cardinality(Holders)
    BY DEF Pool!Cardinality, Cardinality
  <2>2. QED
    BY <1>1, <1>8, <1>9, <1>10, <1>11, <2>1, OutstandingIs DEF Pool!Issue
<1>13. QED
  BY <1>12 DEF Pool!PoolNext

\* A drain that reports success finds no buffer submitted and unfinished.
LEMMA DrainDrains ==
    ASSUME IInv, CompletionInv, BeginDrain \/ EndDrain
    PROVE  Pool!PoolNext \/ UNCHANGED Pool!poolVars
<1> USE SubmissionAssumption DEF IInv, Structure
<1>1. UNCHANGED <<allocated, index, handler, released>>
  BY DEF BeginDrain, EndDrain, leases, queue
<1>2. Life' = Life
  <2>1. Holders' = Holders
    BY <1>1 DEF Holders
  <2>2. QED
    BY <1>1, <2>1, NoneMoves
<1>3. DrainSound'
  BY DrainKeepsCompletion DEF CompletionInv
<1>4. CASE drained' = drained
  BY <1>2, <1>4 DEF Pool!poolVars
<1>5. CASE drained' # drained
  <2>1. drained \in BOOLEAN /\ drained' \in BOOLEAN
    BY DEF TypeOK, BeginDrain, EndDrain
  <2>2. ASSUME drained', NEW b \in Buffers PROVE Life[b] # "submitted"
    <3>1. completed' = completed /\ gpuDone' = gpuDone /\ submitted' = submitted
      BY DEF BeginDrain, EndDrain, shared, queue
    <3>2. completed = submitted
      BY <1>3, <2>2, <3>1 DEF DrainSound
    <3>3. Recorded \in SUBSET Committed
      BY DEF CompletionInv, CountersSound, GpuFinished, Recorded, Committed
    <3>4. Recorded = Committed
      BY <3>2, <3>3, BufferSetsFinite, FS_Subset DEF CompletionInv, CountersSound
    <3>5. index[b] # 0 => handler[b] # "none"
      BY <3>4 DEF Recorded, Committed
    <3>6. QED
      BY <3>5, LifeIs
  <2>3. Pool!Drain
    BY <1>2, <2>1, <2>2 DEF Pool!Drain
  <2>4. QED
    BY <2>3 DEF Pool!PoolNext
<1>6. QED
  BY <1>4, <1>5

\* The handler's first step finishes a buffer, the signal settles it, and what
\* comes between and after is not seen.
LEMMA HandlerFinishes ==
    ASSUME IInv, IInv', NEW b \in Buffers, Handler(b)
    PROVE  Pool!PoolNext \/ UNCHANGED Pool!poolVars
<1> USE SubmissionAssumption DEF IInv, Structure
<1>1. UNCHANGED <<allocated, index, drained>>
  BY DEF Handler, RecordCompleted, UncountToken, SignalToken, ReleaseRetained, thread
<1>2. /\ handler \in [Buffers -> Stages] /\ released \in [Buffers -> BOOLEAN]
      /\ allocated \in 0 .. MaxBuffers
  BY DEF TypeOK
<1>3. index[b] # 0 /\ b \in 1 .. allocated
  BY <1>2 DEF Handler, RecordCompleted, UncountToken, SignalToken, ReleaseRetained,
     GpuFinished, HandlerShape, UnbornUntouched, Buffers
<1>4. CASE RecordCompleted(b)
  <2>1. /\ handler[b] = "none" /\ released' = released
        /\ handler' = [handler EXCEPT ![b] = "recorded"]
    BY <1>4 DEF RecordCompleted, leases
  <2>2. Holders' = Holders /\ b \in Holders
    BY <1>1, <1>2, <1>3, <2>1 DEF Holders, HandlerShape, Buffers
  <2>3. Life' = [Life EXCEPT ![b] = Life'[b]]
    BY <1>1, <1>2, <2>1, <2>2, OneMoves
  <2>4. Life[b] = "submitted"
    BY <1>3, <2>1, <2>2, LifeIs
  <2>5. Life'[b] = "finished"
    BY <1>1, <1>2, <1>3, <2>1, <2>2 DEF Life
  <2>6. QED
    BY <1>1, <2>3, <2>4, <2>5 DEF Pool!PoolNext, Pool!Finish
<1>5. CASE UncountToken(b)
  <2>1. /\ handler[b] = "recorded" /\ ~released[b]
        /\ released' = [released EXCEPT ![b] = TRUE]
        /\ handler' = [handler EXCEPT ![b] = "uncounted"]
    BY <1>3, <1>5 DEF UncountToken, HandlerShape
  <2>2. \A c \in Buffers : c \in Holders' <=> c \in Holders
    BY <1>1, <1>2, <2>1 DEF Holders
  <2>3. Life' = Life
    BY <1>1, <1>2, <2>1, <2>2, NoneMoves
  <2>4. QED
    BY <1>1, <2>3 DEF Pool!poolVars
<1>6. CASE SignalToken(b)
  <2>1. /\ handler[b] = "uncounted" /\ released[b] /\ released' = released
        /\ handler' = [handler EXCEPT ![b] = "signalled"]
    BY <1>6 DEF SignalToken, HandlerShape, leases
  <2>2. b \in Holders /\ \A c \in Buffers : c \in Holders' <=> c \in Holders /\ c # b
    BY <1>1, <1>2, <1>3, <2>1 DEF Holders
  <2>3. Life' = [Life EXCEPT ![b] = Life'[b]]
    BY <1>1, <1>2, <2>1, <2>2, OneMoves
  <2>4. Life[b] = "finished"
    BY <1>3, <2>1, <2>2, LifeIs
  <2>5. Life'[b] = "settled"
    BY <1>1, <1>2, <1>3, <2>1, <2>2 DEF Life
  <2>6. QED
    BY <1>1, <2>3, <2>4, <2>5 DEF Pool!PoolNext, Pool!Settle
<1>7. CASE ReleaseRetained(b)
  <2>1. /\ handler[b] = "signalled" /\ released' = released
        /\ handler' = [handler EXCEPT ![b] = "done"]
    BY <1>7 DEF ReleaseRetained
  <2>2. \A c \in Buffers : c \in Holders' <=> c \in Holders
    BY <1>1, <1>2, <2>1 DEF Holders
  <2>3. Life' = Life
    BY <1>1, <1>2, <2>1, <2>2, NoneMoves
  <2>4. QED
    BY <1>1, <2>3 DEF Pool!poolVars
<1>8. QED
  BY <1>4, <1>5, <1>6, <1>7 DEF Handler

\* Steps that leave the tokens, the positions and the handlers alone are not seen.
LEMMA RestUnseen ==
    ASSUME IInv, UNCHANGED <<allocated, index, handler, released, drained>>
    PROVE  UNCHANGED Pool!poolVars
<1>1. Holders' = Holders
  BY DEF Holders
<1>2. Life' = Life
  BY <1>1, NoneMoves
<1>3. QED
  BY <1>2 DEF Pool!poolVars

\* Every step of the layer is a step of the pool or none.
LEMMA NextImplementsPool ==
    IInv /\ IInv' /\ CompletionInv /\ [Next]_vars => [Pool!PoolNext]_(Pool!poolVars)
<1> SUFFICES ASSUME IInv, IInv', CompletionInv, [Next]_vars
             PROVE  Pool!PoolNext \/ UNCHANGED Pool!poolVars
  OBVIOUS
<1>1. slot \in Slots
  BY DEF IInv, Structure, TypeOK
<1>2. ASSUME NEW s \in Slots, BeginMake(s)
      PROVE  Pool!PoolNext \/ UNCHANGED Pool!poolVars
  <2>1. UNCHANGED <<allocated, released, handler>>
    BY <1>2 DEF BeginMake
  <2>2. CASE UnderPressure
    <3>1. Current \in Slots /\ Open(Current) /\ CommitLease(Current)
      BY <1>2, <2>2, SubmissionAssumption DEF BeginMake, UnderPressure
    <3>2. QED
      BY <2>1, <3>1, CommitSubmits
  <2>3. CASE ~UnderPressure
    BY <1>2, <2>1, <2>3, RestUnseen DEF BeginMake
  <2>4. QED
    BY <2>2, <2>3
<1>3. ASSUME NEW s \in Slots,
             Commit(s) \/ CommitAndWait(s) \/ (SubmitDispatch /\ s = slot)
      PROVE  Pool!PoolNext
  <2>1. Open(s) /\ CommitLease(s) /\ UNCHANGED <<allocated, released, handler>>
    BY <1>3 DEF Commit, CommitAndWait, SubmitDispatch, Open,
                IInv, Structure, InsideCall, LeaseShape
  <2>2. QED
    BY <2>1, CommitSubmits
<1>4. ASSUME NEW s \in Slots, Abandon(s)
      PROVE  Pool!PoolNext \/ UNCHANGED Pool!poolVars
  BY <1>4, AbandonSettles DEF Abandon, queue, thread
<1>5. ASSUME TokenTimeout PROVE Pool!PoolNext \/ UNCHANGED Pool!poolVars
  BY <1>1, <1>5, AbandonSettles DEF TokenTimeout, queue
<1>6. ASSUME (\E s \in Slots, o \in Objects : Adopt(s, o) \/ AdoptRingFallback(s, o))
             \/ TakeToken \/ CountToken \/ NilBuffer \/ EndWait \/ DrainToken
             \/ GpuFinish \/ UNCHANGED vars
      PROVE  UNCHANGED Pool!poolVars
  <2>1. UNCHANGED <<allocated, index, handler, released, drained>>
    BY <1>6 DEF Adopt, AdoptRingFallback, TakeToken, CountToken, NilBuffer, EndWait,
                DrainToken, GpuFinish, vars, leases, queue, thread
  <2>2. QED
    BY <2>1, RestUnseen
<1>7. ASSUME Call PROVE Pool!PoolNext \/ UNCHANGED Pool!poolVars
  BY <1>2, <1>3, <1>4, <1>6, <1>7, DrainDrains DEF Call
<1>8. ASSUME Continue PROVE Pool!PoolNext \/ UNCHANGED Pool!poolVars
  BY <1>1, <1>3, <1>5, <1>6, <1>8, FinishMakeIssues, DrainDrains DEF Continue
<1>9. QED
  BY <1>6, <1>7, <1>8, HandlerFinishes DEF Next

\* The submission layer implements the pool of CommandBufferPool: never more than
\* Bound buffers outstanding, each handed out once, submitted, finished and settled
\* in this order, or given up; and a drain reports success only when the GPU has
\* finished everything.
THEOREM SpecPoolSafety == Spec => PoolSafety
<1>1. Init => Pool!PoolInit
  <2> SUFFICES ASSUME Init PROVE Pool!PoolInit
    OBVIOUS
  <2>1. \A b \in Buffers : b > allocated
    BY SubmissionAssumption DEF Init, Buffers
  <2>2. Life = [b \in Buffers |-> "unborn"]
    BY <2>1 DEF Life
  <2>3. QED
    BY <2>2 DEF Init, Pool!PoolInit
<1>2. QED
  BY <1>1, NextImplementsPool, SpecInvariant, SpecCompletion, PTL DEF Spec, PoolSafety

=============================================================================
