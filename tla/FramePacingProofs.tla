------------------------ MODULE FramePacingProofs ------------------------
(***************************************************************************)
(* Proofs about the ring slots (FramePacing): no permit is lost but by a   *)
(* failed drain, and an application whose calls are all paced never has a  *)
(* ring buffer rewritten while the GPU reads it, whatever the number of    *)
(* ring buffers, of generations and of command buffers in flight.          *)
(*                                                                         *)
(* The argument counts signals.  A command buffer that reads generation g  *)
(* is followed in the queue by the ones that closed the generations since  *)
(* (itself the first of them), and each of those is still to signal, or    *)
(* has lost its permit.  A call that writes the ring holds a slot itself,  *)
(* so that fewer permits than ring buffers are lost or to come: g is       *)
(* closer to the present generation than one turn of the ring.             *)
(***************************************************************************)
EXTENDS FramePacing, Integers, FiniteSetTheorems, TLAPS

\* One permit, if this is so.
One(holds) == IF holds THEN 1 ELSE 0

\* The command buffers of q from the i-th on that are to signal.
SignalSet(q, i) == {j \in i .. Len(q) : q[j].signals}

-----------------------------------------------------------------------------
(* The semaphore, the signals and the ring.                                *)

\* Signals to come are a number of command buffers, the fewer the later one
\* starts to count.
LEMMA SignalsCounted ==
    ASSUME NEW q \in Seq(CommandBuffers), NEW i \in Nat \ {0}
    PROVE  /\ IsFiniteSet(SignalSet(q, i))
           /\ SignalsFrom(q, i) = Cardinality(SignalSet(q, i))
           /\ SignalsFrom(q, i) \in Nat
           /\ SignalsFrom(q, i) <= SignalsFrom(q, 1)
<1>1. \A k \in Nat : /\ IsFiniteSet(SignalSet(q, k))
                     /\ SignalsFrom(q, k) = Cardinality(SignalSet(q, k))
  <2> SUFFICES ASSUME NEW k \in Nat
               PROVE  /\ IsFiniteSet(SignalSet(q, k))
                      /\ SignalsFrom(q, k) = Cardinality(SignalSet(q, k))
    OBVIOUS
  <2>1. IsFiniteSet(k .. Len(q))
    BY FS_Interval
  <2>2. SignalSet(q, k) \in SUBSET (k .. Len(q))
    BY DEF SignalSet
  <2> QED
    BY <2>1, <2>2, FS_Subset DEF SignalsFrom, SignalSet
<1>2. SignalSet(q, i) \in SUBSET SignalSet(q, 1)
  BY DEF SignalSet
<1>3. Cardinality(SignalSet(q, i)) <= Cardinality(SignalSet(q, 1))
  BY <1>1, <1>2, FS_Subset
<1> QED
  BY <1>1, <1>3, FS_CardinalityType

\* An empty queue is not to signal.
LEMMA SignalsNone == SignalsFrom(<< >>, 1) = 0
<1>1. SignalSet(<< >>, 1) = {}
  BY DEF SignalSet
<1> QED
  BY <1>1, FS_EmptySet DEF SignalsFrom, SignalSet

\* A command buffer that is committed is to signal after the others.
LEMMA SignalsAppended ==
    ASSUME NEW q \in Seq(CommandBuffers), NEW cb \in CommandBuffers,
           NEW i \in 1 .. Len(q) + 1
    PROVE  SignalsFrom(Append(q, cb), i) = SignalsFrom(q, i) + One(cb.signals)
<1> DEFINE q2 == Append(q, cb)
<1>1. /\ q2 \in Seq(CommandBuffers)
      /\ Len(q2) = Len(q) + 1
      /\ \A j \in 1 .. Len(q) : q2[j] = q[j]
      /\ q2[Len(q) + 1] = cb
  OBVIOUS
<1>2. i \in Nat \ {0}
  OBVIOUS
<1>3. /\ IsFiniteSet(SignalSet(q, i))
      /\ SignalsFrom(q, i) = Cardinality(SignalSet(q, i))
      /\ SignalsFrom(q, i) \in Nat
      /\ SignalsFrom(q2, i) = Cardinality(SignalSet(q2, i))
  BY <1>1, <1>2, SignalsCounted
<1>4. Len(q) + 1 \notin SignalSet(q, i)
  BY DEF SignalSet
<1>5. CASE cb.signals
  <2>1. SignalSet(q2, i) = SignalSet(q, i) \cup {Len(q) + 1}
    BY <1>1, <1>5 DEF SignalSet
  <2> QED
    BY <1>3, <1>4, <1>5, <2>1, FS_AddElement DEF One
<1>6. CASE ~cb.signals
  <2>1. SignalSet(q2, i) = SignalSet(q, i)
    BY <1>1, <1>6 DEF SignalSet
  <2> QED
    BY <1>3, <1>6, <2>1 DEF One
<1> QED
  BY <1>5, <1>6

\* The oldest command buffer is to signal besides the ones behind it.
LEMMA SignalsOfHead ==
    ASSUME NEW q \in Seq(CommandBuffers), q # << >>
    PROVE  SignalsFrom(q, 1) = SignalsFrom(q, 2) + One(q[1].signals)
<1>1. /\ IsFiniteSet(SignalSet(q, 2))
      /\ SignalsFrom(q, 2) = Cardinality(SignalSet(q, 2))
      /\ SignalsFrom(q, 2) \in Nat
      /\ SignalsFrom(q, 1) = Cardinality(SignalSet(q, 1))
  BY SignalsCounted
<1>2. 1 \in 1 .. Len(q) /\ 1 \notin SignalSet(q, 2)
  BY DEF SignalSet
<1>3. CASE q[1].signals
  <2>1. SignalSet(q, 1) = SignalSet(q, 2) \cup {1}
    BY <1>2, <1>3 DEF SignalSet
  <2> QED
    BY <1>1, <1>2, <1>3, <2>1, FS_AddElement DEF One
<1>4. CASE ~q[1].signals
  <2>1. SignalSet(q, 1) = SignalSet(q, 2)
    BY <1>2, <1>4 DEF SignalSet
  <2> QED
    BY <1>1, <1>4, <2>1 DEF One
<1> QED
  BY <1>3, <1>4

\* Once the oldest has gone, the others count as before.
LEMMA SignalsOfTail ==
    ASSUME NEW q \in Seq(CommandBuffers), q # << >>, NEW i \in 1 .. Len(q)
    PROVE  SignalsFrom(Tail(q), i) = SignalsFrom(q, i + 1)
<1> DEFINE S == SignalSet(Tail(q), i)
           T == SignalSet(q, i + 1)
           f == [j \in S |-> j + 1]
<1>1. /\ Tail(q) \in Seq(CommandBuffers)
      /\ Len(Tail(q)) = Len(q) - 1
      /\ \A j \in 1 .. Len(q) - 1 : Tail(q)[j] = q[j + 1]
  OBVIOUS
<1>2. /\ IsFiniteSet(S)
      /\ SignalsFrom(Tail(q), i) = Cardinality(S)
      /\ SignalsFrom(q, i + 1) = Cardinality(T)
  <2>1. i \in Nat \ {0} /\ i + 1 \in Nat \ {0}
    OBVIOUS
  <2> QED
    BY <1>1, <2>1, SignalsCounted
<1>3. \A j \in S : j \in 1 .. Len(q) - 1 /\ j + 1 \in T
  BY <1>1 DEF SignalSet
<1>4. \A k \in T : k \in Int /\ k - 1 \in S
  BY <1>1 DEF SignalSet
<1>5. f \in [S -> T]
  BY <1>3
<1>6. f \in Injection(S, T)
  BY <1>3, <1>5 DEF Injection, IsInjective
<1>7. f \in Surjection(S, T)
  <2>1. \A k \in T : k - 1 \in S /\ f[k - 1] = k
    BY <1>4
  <2> QED
    BY <1>5, <2>1 DEF Surjection
<1>8. ExistsBijection(S, T)
  BY <1>6, <1>7 DEF ExistsBijection, Bijection
<1> QED
  BY <1>2, <1>8, FS_Bijection

\* A negative multiple of a number is at most the number's opposite.
LEMMA NegativeMultiple ==
    ASSUME NEW n \in Nat \ {0}, NEW k \in Int, k < 0
    PROVE  n * k <= 0 - n
<1>1. \A x \in Nat, y \in Nat : x * y \in Nat
  BY SMT
<1>2. n * (0 - (k + 1)) \in Nat
  BY <1>1
<1>3. n * (0 - (k + 1)) = 0 - n * (k + 1)
  BY SMT
<1>4. n * (k + 1) = n * k + n
  BY SMT
<1> QED
  BY <1>2, <1>3, <1>4

\* Two numbers less than n apart leave different remainders.
LEMMA RemaindersApart ==
    ASSUME NEW n \in Nat \ {0}, NEW a \in Nat, NEW b \in Nat, a < b, b - a < n
    PROVE  a % n # b % n
<1> SUFFICES ASSUME a % n = b % n
             PROVE  FALSE
  OBVIOUS
<1>1. /\ a \div n \in Int /\ a = n * (a \div n) + (a % n)
      /\ b \div n \in Int /\ b = n * (b \div n) + (b % n)
  BY SMT
<1>2. PICK d \in Int : d = a \div n
  BY <1>1
<1>3. PICK e \in Int : e = b \div n
  BY <1>1
<1>4. a - b = n * (d - e)
  <2>1. n * (d - e) = n * d - n * e
    BY SMT
  <2> QED
    BY <1>1, <1>2, <1>3, <2>1
<1>5. CASE d - e < 0
  BY <1>4, <1>5, NegativeMultiple
<1>6. CASE d - e >= 0
  <2>1. \A x \in Nat, y \in Nat : x * y \in Nat
    BY SMT
  <2>2. n * (d - e) \in Nat
    BY <1>6, <2>1
  <2> QED
    BY <1>4, <2>2
<1> QED
  BY <1>5, <1>6

\* Two generations less than a turn of the ring apart have different slots.
LEMMA SlotsApart ==
    ASSUME NEW a \in Nat, NEW b \in Nat, a < b, b - a < RingCount
    PROVE  Slot(a) # Slot(b)
BY PacingAssumption, RemaindersApart DEF Slot

\* A slot is an index of the ring.
LEMMA SlotInRing ==
    ASSUME NEW g \in Nat
    PROVE  Slot(g) \in 0 .. RingCount - 1
BY PacingAssumption DEF Slot
-----------------------------------------------------------------------------
(* Type correctness.                                                       *)

\* What a call puts together is typed: what it commits, the permits it leaves,
\* and the generation it goes on in if there is room for one more.
LEMMA PartsTyped ==
    ASSUME TypeOK
    PROVE  /\ \A b \in BOOLEAN :
                Append(inFlight, [reads |-> reads, signals |-> b]) \in Seq(CommandBuffers)
           /\ \A held \in BOOLEAN :
                CommitWithFrameSignal(held) => inFlight' \in Seq(CommandBuffers) /\ lost' \in Nat
           /\ CommitWithoutSignal => inFlight' \in Seq(CommandBuffers)
           /\ Spend => inFlight' \in Seq(CommandBuffers)
           /\ PermitsAfterAcquire \in Nat
           /\ CanAcquire \in BOOLEAN
           /\ ReleaseSlotNow => permits' \in Nat /\ acquired' \in BOOLEAN
           /\ gen < MaxGeneration => gen + 1 \in 0 .. MaxGeneration
           /\ \A g \in 0 .. MaxGeneration :
                Write(g) => content' \in [0 .. RingCount - 1 -> 0 .. MaxGeneration]
<1>1. \A b \in BOOLEAN : [reads |-> reads, signals |-> b] \in CommandBuffers
  BY DEF TypeOK, CommandBuffers
<1>2. inFlight \in Seq(CommandBuffers)
  BY DEF TypeOK
<1>3. \A b \in BOOLEAN :
         Append(inFlight, [reads |-> reads, signals |-> b]) \in Seq(CommandBuffers)
  BY <1>1, <1>2
<1>4. CanAcquire \in BOOLEAN
  BY DEF CanAcquire
<1>5. PermitsAfterAcquire \in Nat
  BY DEF TypeOK, PermitsAfterAcquire, CanAcquire
<1>6. ASSUME ReleaseSlotNow
      PROVE  permits' \in Nat /\ acquired' \in BOOLEAN
  <2>1. permits \in Nat
    BY DEF TypeOK
  <2>2. permits' = permits + 1 \/ permits' = permits
    BY <1>6 DEF ReleaseSlotNow
  <2>3. acquired' \in BOOLEAN
    BY <1>6 DEF ReleaseSlotNow
  <2> QED
    BY <2>1, <2>2, <2>3
<1>7. gen < MaxGeneration => gen + 1 \in 0 .. MaxGeneration
  BY PacingAssumption DEF TypeOK
<1>8. \A g \in 0 .. MaxGeneration :
         Write(g) => content' \in [0 .. RingCount - 1 -> 0 .. MaxGeneration]
  BY DEF TypeOK, Write
<1>9. ASSUME NEW held \in BOOLEAN, CommitWithFrameSignal(held)
      PROVE  inFlight' \in Seq(CommandBuffers) /\ lost' \in Nat
  <2>1. lost \in Nat /\ lost + 1 \in Nat
    BY DEF TypeOK
  <2>2. CASE spent
    BY <1>2, <1>9, <2>1, <2>2 DEF CommitWithFrameSignal
  <2>3. CASE ~spent
    BY <1>3, <1>9, <2>1, <2>3 DEF CommitWithFrameSignal
  <2> QED
    BY <2>2, <2>3
<1>10. CommitWithoutSignal => inFlight' \in Seq(CommandBuffers)
  BY <1>2, <1>3 DEF CommitWithoutSignal
<1>11. Spend => inFlight' \in Seq(CommandBuffers)
  BY <1>3 DEF Spend
<1> QED
  BY <1>3, <1>4, <1>5, <1>6, <1>7, <1>8, <1>9, <1>10, <1>11

\* Every step of the application preserves the types.
LEMMA CallTypeOK ==
    ASSUME TypeOK, Call
    PROVE  TypeOK'
<1> USE PartsTyped
<1>1. ASSUME NEW target \in {"draw", "fboDraw"}, NEW rotate \in BOOLEAN,
             Draw(target, rotate)
      PROVE  TypeOK'
  <2>1. CASE rotate
    <3>1. gen + 1 \in 0 .. MaxGeneration
      BY <1>1, <2>1 DEF Draw, Bounded
    <3>2. content' \in [0 .. RingCount - 1 -> 0 .. MaxGeneration]
      BY <1>1, <2>1, <3>1 DEF Draw
    <3>3. inFlight' \in Seq(CommandBuffers) /\ lost' \in Nat
      BY <1>1, <2>1 DEF Draw
    <3> QED
      BY <1>1, <2>1, <3>1, <3>2, <3>3 DEF Draw, Advance, DefaultPass, clears, TypeOK
  <2>2. CASE ~rotate
    <3>1. content' \in [0 .. RingCount - 1 -> 0 .. MaxGeneration]
      BY <1>1, <2>2 DEF Draw, TypeOK
    <3> QED
      BY <1>1, <2>2, <3>1 DEF Draw, DefaultPass, clears, TypeOK
  <2> QED
    BY <2>1, <2>2
<1>2. CASE PressureFlush
  BY <1>2 DEF PressureFlush, Bounded, Advance, Close, clears, TypeOK
<1>3. CASE ComputeDispatch
  <2>1. content' \in [0 .. RingCount - 1 -> 0 .. MaxGeneration]
    BY <1>3 DEF ComputeDispatch, TypeOK
  <2>2. [reads |-> {gen}, signals |-> FALSE] \in CommandBuffers
    BY DEF CommandBuffers, TypeOK
  <2> QED
    BY <1>3, <2>1, <2>2 DEF ComputeDispatch, clears, TypeOK
<1>4. CASE Clear
  BY <1>4 DEF Clear, Bounded, Advance, Close, TypeOK
<1>5. CASE Present
  BY <1>5 DEF Present, Bounded, Advance, Close, buffers, TypeOK
<1>6. CASE EndFrame
  BY <1>6 DEF EndFrame, Bounded, Advance, Close, buffers, TypeOK
<1>7. CASE Finish
  BY <1>7 DEF Finish, Bounded, Advance, Close, buffers, TypeOK
<1>8. CASE Readback
  BY <1>8 DEF Readback, Close, TypeOK
<1>9. CASE CopyPixels
  BY <1>9 DEF CopyPixels, Close, TypeOK
<1>10. CASE GiveUp
  BY <1>10 DEF GiveUp, Close, clears, TypeOK
<1>11. CASE DrainStandalone
  BY <1>11 DEF DrainStandalone, Close, TypeOK
<1>12. CASE LayeredClear
  BY <1>12 DEF LayeredClear, Bounded, Close, TypeOK
<1>13. CASE LayeredClearLate
  BY <1>13 DEF LayeredClearLate, Bounded, Close, TypeOK
<1>14. CASE Resize
  BY <1>14 DEF Resize, Bounded, Advance, Close, TypeOK
<1>15. CASE Resolve
  BY <1>15 DEF Resolve, DefaultPass, clears, TypeOK
<1>16. CASE WriteRegion
  BY <1>16 DEF WriteRegion, DefaultPass, clears, TypeOK
<1>17. ASSUME NEW target \in {"tessDefault", "tessFbo"}, NEW drains \in BOOLEAN,
              TessCompute(target, drains)
       PROVE  TypeOK'
  <2>1. /\ gen' \in 0 .. MaxGeneration
        /\ permits' \in Nat /\ acquired' \in BOOLEAN /\ open' \in BOOLEAN
        /\ spent' \in BOOLEAN
        /\ reads' \subseteq 0 .. MaxGeneration
        /\ pendingPresent' \in BOOLEAN
    <3>1. CASE drains /\ open
      BY <1>17, <3>1 DEF TessCompute, Close, TypeOK
    <3>2. CASE ~(drains /\ open)
      BY <1>17, <3>2 DEF TessCompute, TypeOK
    <3> QED
      BY <3>1, <3>2
  <2>2. content' \in [0 .. RingCount - 1 -> 0 .. MaxGeneration]
    BY <1>17, <2>1 DEF TessCompute
  <2>3. [reads |-> {gen'}, signals |-> FALSE] \in CommandBuffers
    BY <2>1 DEF CommandBuffers
  <2>4. inFlight' \in Seq(CommandBuffers)
    BY <1>17, <2>3 DEF TessCompute, TypeOK
  <2>5. at' = target /\ UNCHANGED <<lost, pendingClear, workload>>
    BY <1>17 DEF TessCompute
  <2> QED
    BY <1>17, <2>1, <2>2, <2>4, <2>5 DEF TypeOK
<1>18. CASE DrainStandaloneFails
  BY <1>18 DEF DrainStandaloneFails, Spend, clears, TypeOK
<1> QED
  BY <1>1, <1>2, <1>3, <1>4, <1>5, <1>6, <1>7, <1>8, <1>9, <1>10, <1>11, <1>12,
     <1>13, <1>14, <1>15, <1>16, <1>17, <1>18 DEF Call

\* And so does every other step.
LEMMA NextTypeOK ==
    ASSUME TypeOK, [Next]_vars
    PROVE  TypeOK'
<1> USE PartsTyped
<1>1. CASE Call
  BY <1>1, CallTypeOK
<1>2. CASE ClearAcquires
  BY <1>2 DEF ClearAcquires, TypeOK
<1>3. CASE TessRenderDefault
  BY <1>3 DEF TessRenderDefault, DefaultPass, clears, TypeOK
<1>4. CASE TessRenderFbo
  BY <1>4 DEF TessRenderFbo, Close, clears, TypeOK
<1>5. CASE GpuWaited
  BY <1>5 DEF GpuWaited, buffers, clears, TypeOK
<1>6. CASE GpuFinish
  <2>1. permits' \in Nat /\ inFlight' \in Seq(CommandBuffers)
    BY <1>6 DEF GpuFinish, GpuIdle, TypeOK
  <2> QED
    BY <1>6, <2>1 DEF GpuFinish, clears, TypeOK
<1>7. CASE UNCHANGED vars
  BY <1>7 DEF vars, TypeOK
<1>8. CASE TessRenderFboFails
  BY <1>8 DEF TessRenderFboFails, Spend, clears, TypeOK
<1> QED
  BY <1>1, <1>2, <1>3, <1>4, <1>5, <1>6, <1>7, <1>8 DEF Next

\* The first state is typed.
LEMMA InitTypeOK ==
    ASSUME Init
    PROVE  TypeOK
<1>1. /\ RingCount - 1 \in Nat
      /\ 0 \in 0 .. MaxGeneration
  BY PacingAssumption
<1> QED
  BY <1>1 DEF Init, TypeOK

\* Every variable keeps its type: the generations stay within the bound, and
\* the semaphore never goes below zero.
THEOREM SpecTypeOK == Spec => []TypeOK
<1> QED
  BY InitTypeOK, NextTypeOK, PTL DEF Spec

-----------------------------------------------------------------------------
(* The permits.                                                            *)

\* The permits held, and those that were lost.
Accounted == PermitsHeld + lost

\* They are numbers.
LEMMA HeldCounted ==
    ASSUME TypeOK
    PROVE  /\ SignalsToCome \in Nat
           /\ permits \in Nat /\ lost \in Nat /\ One(acquired) \in {0, 1}
           /\ Accounted = permits + SignalsToCome + One(acquired) + lost
BY SignalsCounted DEF TypeOK, SignalsToCome, PermitsHeld, Accounted, One

\* And so they are after a step.
LEMMA HeldAfter ==
    ASSUME TypeOK'
    PROVE  /\ SignalsToCome' \in Nat
           /\ permits' \in Nat /\ lost' \in Nat /\ One(acquired') \in {0, 1}
           /\ Accounted' = permits' + SignalsToCome' + One(acquired') + lost'
BY SignalsCounted DEF TypeOK, SignalsToCome, PermitsHeld, Accounted, One

\* A commit adds its own signal to those to come.
LEMMA CommitCounted ==
    ASSUME TypeOK, NEW b \in BOOLEAN, NEW s \in SUBSET (0 .. MaxGeneration),
           inFlight' = Append(inFlight, [reads |-> s, signals |-> b])
    PROVE  SignalsToCome' = SignalsToCome + One(b)
<1> DEFINE cb == [reads |-> s, signals |-> b]
<1>1. inFlight \in Seq(CommandBuffers) /\ cb \in CommandBuffers
  BY DEF TypeOK, CommandBuffers
<1>2. 1 \in 1 .. Len(inFlight) + 1
  BY <1>1
<1>3. SignalsFrom(Append(inFlight, cb), 1) = SignalsFrom(inFlight, 1) + One(cb.signals)
  BY <1>1, <1>2, SignalsAppended
<1> QED
  BY <1>3 DEF SignalsToCome

\* A signal that comes is a permit again.
LEMMA FinishCounted ==
    ASSUME TypeOK, GpuFinish
    PROVE  permits' + SignalsToCome' = permits + SignalsToCome
<1>1. /\ inFlight \in Seq(CommandBuffers) /\ inFlight # << >>
      /\ 1 \in 1 .. Len(inFlight)
      /\ Head(inFlight) = inFlight[1]
      /\ inFlight' = Tail(inFlight)
  BY DEF TypeOK, GpuFinish, GpuIdle
<1>2. SignalsToCome = SignalsFrom(inFlight, 2) + One(inFlight[1].signals)
  BY <1>1, SignalsOfHead DEF SignalsToCome
<1>3. SignalsToCome' = SignalsFrom(inFlight, 2)
  <2>1. SignalsFrom(Tail(inFlight), 1) = SignalsFrom(inFlight, 1 + 1)
    BY <1>1, SignalsOfTail
  <2> QED
    BY <1>1, <2>1 DEF SignalsToCome
<1>4. SignalsFrom(inFlight, 2) \in Nat
  BY <1>1, SignalsCounted
<1>5. permits' = permits + One(inFlight[1].signals)
  BY <1>1 DEF GpuFinish, TypeOK, One
<1> QED
  BY <1>2, <1>3, <1>4, <1>5 DEF TypeOK, One

\* What keeps the count of permits exact: nothing is committed, and no clear
\* kept for later, without a slot, and every wait for one succeeds.
SlotBehindWork ==
    /\ open \/ pendingClear => acquired
    /\ "lateGpu" \notin workload

\* No step loses a permit that is not accounted for, and none makes one up
\* where work has its slot.
PermitsKept ==
    /\ Accounted' >= Accounted
    /\ SlotBehindWork => Accounted' = Accounted

\* An acquisition takes a permit for the slot it gets, if it gets one.
LEMMA AcquireCounted ==
    ASSUME TypeOK
    PROVE  PermitsAfterAcquire + One(CanAcquire) = permits + One(acquired)
<1>1. permits \in Nat
  BY DEF TypeOK
<1>2. CASE acquired
  <2>1. CanAcquire /\ PermitsAfterAcquire = permits
    BY <1>2 DEF PermitsAfterAcquire, CanAcquire
  <2> QED
    BY <1>1, <1>2, <2>1 DEF One
<1>3. CASE ~acquired /\ permits > 0
  <2>1. CanAcquire /\ PermitsAfterAcquire = permits - 1
    BY <1>3 DEF PermitsAfterAcquire, CanAcquire
  <2> QED
    BY <1>1, <1>3, <2>1 DEF One
<1>4. CASE ~acquired /\ ~(permits > 0)
  <2>1. ~CanAcquire /\ PermitsAfterAcquire = permits
    BY <1>4 DEF PermitsAfterAcquire, CanAcquire
  <2> QED
    BY <1>1, <1>4, <2>1 DEF One
<1> QED
  BY <1>2, <1>3, <1>4

\* The slot that is acquired is a permit that is taken.
LEMMA AcquireKeeps ==
    ASSUME TypeOK, TypeOK', permits' = PermitsAfterAcquire, acquired' = CanAcquire,
           UNCHANGED <<inFlight, lost>>
    PROVE  PermitsKept
<1>1. SignalsToCome' = SignalsToCome
  BY DEF SignalsToCome
<1>2. permits' + One(acquired') = permits + One(acquired)
  BY AcquireCounted
<1> QED
  BY <1>1, <1>2, HeldCounted, HeldAfter DEF PermitsKept

\* The slot that is given back now is a permit again.
LEMMA ReleaseKeeps ==
    ASSUME TypeOK, TypeOK', ReleaseSlotNow, SignalsToCome' = SignalsToCome,
           UNCHANGED lost
    PROVE  PermitsKept
<1>1. ~acquired' /\ permits \in Nat /\ permits' = permits + One(acquired)
  <2>1. CASE acquired
    BY <2>1 DEF ReleaseSlotNow, One, TypeOK
  <2>2. CASE ~acquired
    BY <2>2 DEF ReleaseSlotNow, One, TypeOK
  <2> QED
    BY <2>1, <2>2
<1>2. One(acquired') = 0
  BY <1>1 DEF One
<1> QED
  BY <1>1, <1>2, HeldCounted, HeldAfter DEF PermitsKept

\* A commit with a frame signal brings a signal, or loses the slot that is held.
LEMMA FrameSignalCounted ==
    ASSUME TypeOK, NEW held \in BOOLEAN, CommitWithFrameSignal(held)
    PROVE  \/ SignalsToCome' = SignalsToCome + 1 /\ lost' = lost
           \/ SignalsToCome' = SignalsToCome /\ lost' = lost + One(held)
<1>1. CASE spent
  <2>1. UNCHANGED inFlight /\ lost' = lost + One(held)
    BY <1>1, HeldCounted DEF CommitWithFrameSignal, One
  <2> QED
    BY <2>1 DEF SignalsToCome
<1>2. CASE ~spent
  <2>1. reads \in SUBSET (0 .. MaxGeneration)
    BY DEF TypeOK
  <2>2. SignalsToCome' = SignalsToCome + One(TRUE)
    BY <1>2, <2>1, CommitCounted DEF CommitWithFrameSignal
  <2> QED
    BY <1>2, <2>2 DEF One, CommitWithFrameSignal
<1> QED
  BY <1>1, <1>2

\* A commit that will signal, or has no slot to signal, and the next generation.
LEMMA CommitKeeps ==
    ASSUME TypeOK, TypeOK', CommitWithFrameSignal(acquired), acquired' = FALSE,
           UNCHANGED permits, open \/ pendingClear
    PROVE  PermitsKept
<1>1. \/ SignalsToCome' = SignalsToCome + 1 /\ lost' = lost
      \/ SignalsToCome' = SignalsToCome /\ lost' = lost + One(acquired)
  BY FrameSignalCounted DEF TypeOK
<1>2. One(acquired') = 0 /\ (SlotBehindWork => One(acquired) = 1)
  BY DEF SlotBehindWork, One
<1> QED
  BY <1>1, <1>2, HeldCounted, HeldAfter DEF PermitsKept

\* The same, after a slot was acquired in the same call.
LEMMA AcquireCommitKeeps ==
    ASSUME TypeOK, TypeOK', permits' = PermitsAfterAcquire, AcquireReturns,
           CommitWithFrameSignal(CanAcquire), Advance
    PROVE  PermitsKept
<1>1. \/ SignalsToCome' = SignalsToCome + 1 /\ lost' = lost
      \/ SignalsToCome' = SignalsToCome /\ lost' = lost + One(CanAcquire)
  <2>1. CanAcquire \in BOOLEAN
    BY PartsTyped
  <2> QED
    BY <2>1, FrameSignalCounted
<1>2. permits' + One(CanAcquire) = permits + One(acquired)
  BY AcquireCounted
<1>3. /\ One(acquired') = 0
      /\ One(CanAcquire) \in {0, 1}
      /\ SlotBehindWork => One(CanAcquire) = 1
  BY DEF Advance, AcquireReturns, SlotBehindWork, One
<1> QED
  BY <1>1, <1>2, <1>3, HeldCounted, HeldAfter DEF PermitsKept

\* A commit without a signal, of whatever was read.
LEMMA SilentCommitCounted ==
    ASSUME TypeOK, NEW s \in SUBSET (0 .. MaxGeneration),
           inFlight' = Append(inFlight, [reads |-> s, signals |-> FALSE])
    PROVE  SignalsToCome' = SignalsToCome
<1>1. SignalsToCome' = SignalsToCome + One(FALSE)
  BY CommitCounted
<1> QED
  BY <1>1, HeldCounted DEF One

LEMMA NoSignalCounted ==
    ASSUME TypeOK, CommitWithoutSignal \/ Spend
    PROVE  SignalsToCome' = SignalsToCome
<1>1. reads \in SUBSET (0 .. MaxGeneration)
  BY DEF TypeOK
<1>2. \/ inFlight' = inFlight
      \/ inFlight' = Append(inFlight, [reads |-> reads, signals |-> FALSE])
  BY DEF CommitWithoutSignal, Spend
<1> QED
  BY <1>1, <1>2, SilentCommitCounted DEF SignalsToCome

\* Nothing happens to the semaphore.
LEMMA IdleKeeps ==
    ASSUME TypeOK, TypeOK', SignalsToCome' = SignalsToCome,
           UNCHANGED <<permits, acquired, lost>>
    PROVE  PermitsKept
BY HeldCounted, HeldAfter DEF PermitsKept

\* Every step keeps the permits.
LEMMA StepKeepsPermits ==
    ASSUME TypeOK, TypeOK', [Next]_vars
    PROVE  PermitsKept
<1>0. UNCHANGED inFlight => SignalsToCome' = SignalsToCome
  BY DEF SignalsToCome
<1>1. ASSUME NEW target \in {"draw", "fboDraw"}, NEW rotate \in BOOLEAN,
             Draw(target, rotate)
      PROVE  PermitsKept
  <2>1. CASE rotate
    BY <1>1, <2>1, AcquireCommitKeeps DEF Draw
  <2>2. CASE ~rotate
    BY <1>1, <2>2, AcquireKeeps DEF Draw
  <2> QED
    BY <2>1, <2>2
<1>2. CASE PressureFlush
  BY <1>2, CommitKeeps DEF PressureFlush, Advance
<1>3. CASE ComputeDispatch
  <2>1. {gen} \in SUBSET (0 .. MaxGeneration)
    BY DEF TypeOK
  <2>2. SignalsToCome' = SignalsToCome
    BY <1>3, <2>1, SilentCommitCounted DEF ComputeDispatch
  <2> QED
    BY <1>3, <2>2, IdleKeeps DEF ComputeDispatch
<1>4. CASE Clear
  <2>1. CASE open
    BY <1>4, <2>1, AcquireCommitKeeps DEF Clear
  <2>2. CASE ~open
    BY <1>4, <2>2, AcquireKeeps DEF Clear
  <2> QED
    BY <2>1, <2>2
<1>5. CASE Present
  <2>1. CASE OpenAfterFlush /\ (pendingClear \/ pendingPresent)
    BY <1>5, <2>1, CommitKeeps DEF Present, OpenAfterFlush, Advance
  <2>2. CASE ~(OpenAfterFlush /\ (pendingClear \/ pendingPresent))
    BY <1>0, <1>5, <2>2, IdleKeeps DEF Present, buffers
  <2> QED
    BY <2>1, <2>2
<1>6. CASE EndFrame
  <2>1. CASE open
    BY <1>6, <2>1, CommitKeeps DEF EndFrame, Advance
  <2>2. CASE ~open
    BY <1>0, <1>6, <2>2, IdleKeeps DEF EndFrame, buffers
  <2> QED
    BY <2>1, <2>2
<1>7. CASE Finish
  <2>1. CASE OpenAfterFlush
    BY <1>7, <2>1, CommitKeeps DEF Finish, OpenAfterFlush, Advance
  <2>2. CASE ~OpenAfterFlush
    BY <1>0, <1>7, <2>2, IdleKeeps DEF Finish, buffers
  <2> QED
    BY <2>1, <2>2
<1>8. CASE Readback
  BY <1>0, <1>8, ReleaseKeeps DEF Readback
<1>9. CASE CopyPixels
  BY <1>0, <1>9, ReleaseKeeps DEF CopyPixels
<1>10. CASE GiveUp
  <2>1. SignalsToCome' = SignalsToCome
    BY <1>10, NoSignalCounted DEF GiveUp
  <2> QED
    BY <1>10, <2>1, IdleKeeps DEF GiveUp
<1>11. CASE DrainStandalone
  BY <1>0, <1>11, ReleaseKeeps DEF DrainStandalone
<1>12. CASE LayeredClear
  <2>1. ~acquired' /\ permits' = permits /\ open
    BY <1>12 DEF LayeredClear
  <2>2. CASE acquired
    <3>1. CommitWithFrameSignal(acquired)
      BY <1>12, <2>2 DEF LayeredClear
    <3>2. acquired' = FALSE
      BY <2>1 DEF TypeOK
    <3> QED
      BY <2>1, <3>1, <3>2, CommitKeeps
  <2>3. CASE ~acquired
    <3>1. SignalsToCome' = SignalsToCome /\ lost' = lost
      BY <1>12, <2>3, NoSignalCounted DEF LayeredClear
    <3>2. acquired' = acquired
      BY <2>1, <2>3 DEF TypeOK
    <3> QED
      BY <2>1, <3>1, <3>2, IdleKeeps
  <2> QED
    BY <2>2, <2>3
<1>13. CASE LayeredClearLate
  <2>1. SignalsToCome' = SignalsToCome
    BY <1>13, NoSignalCounted DEF LayeredClearLate
  <2> QED
    BY <1>13, <2>1, ReleaseKeeps DEF LayeredClearLate
<1>14. CASE Resize
  <2>1. CASE open /\ ~spent
    BY <1>14, <2>1, CommitKeeps DEF Resize, Advance
  <2>2. CASE ~(open /\ ~spent)
    BY <1>0, <1>14, <2>2, IdleKeeps DEF Resize
  <2> QED
    BY <2>1, <2>2
<1>15. CASE Resolve
  BY <1>15, AcquireKeeps DEF Resolve
<1>16. CASE WriteRegion
  BY <1>0, <1>16, IdleKeeps DEF WriteRegion
<1>17. ASSUME NEW target \in {"tessDefault", "tessFbo"}, NEW drains \in BOOLEAN,
              TessCompute(target, drains)
       PROVE  PermitsKept
  <2>1. {gen'} \in SUBSET (0 .. MaxGeneration)
    BY DEF TypeOK
  <2>2. SignalsToCome' = SignalsToCome
    BY <1>17, <2>1, SilentCommitCounted DEF TessCompute
  <2>3. CASE drains /\ open
    BY <1>17, <2>2, <2>3, ReleaseKeeps DEF TessCompute
  <2>4. CASE ~(drains /\ open)
    BY <1>17, <2>2, <2>4, IdleKeeps DEF TessCompute
  <2> QED
    BY <2>3, <2>4
<1>18. CASE ClearAcquires
  BY <1>18, AcquireKeeps DEF ClearAcquires
<1>19. CASE TessRenderDefault
  BY <1>0, <1>19, IdleKeeps DEF TessRenderDefault
<1>20. CASE TessRenderFbo
  BY <1>0, <1>20, ReleaseKeeps DEF TessRenderFbo
<1>21. CASE GpuWaited
  BY <1>0, <1>21, IdleKeeps DEF GpuWaited, buffers
<1>22. CASE GpuFinish
  <2>1. permits' + SignalsToCome' = permits + SignalsToCome
    BY <1>22, FinishCounted
  <2>2. acquired' = acquired /\ lost' = lost
    BY <1>22 DEF GpuFinish
  <2> QED
    BY <2>1, <2>2, HeldCounted, HeldAfter DEF PermitsKept
<1>23. CASE UNCHANGED vars
  BY <1>0, <1>23, IdleKeeps DEF vars
<1>24. CASE DrainStandaloneFails
  <2>1. SignalsToCome' = SignalsToCome
    BY <1>24, NoSignalCounted DEF DrainStandaloneFails
  <2> QED
    BY <1>24, <2>1, IdleKeeps DEF DrainStandaloneFails
<1>25. CASE TessRenderFboFails
  <2>1. SignalsToCome' = SignalsToCome
    BY <1>25, NoSignalCounted DEF TessRenderFboFails
  <2> QED
    BY <1>25, <2>1, IdleKeeps DEF TessRenderFboFails
<1> QED
  BY <1>1, <1>2, <1>3, <1>4, <1>5, <1>6, <1>7, <1>8, <1>9, <1>10, <1>11, <1>12,
     <1>13, <1>14, <1>15, <1>16, <1>17, <1>18, <1>19, <1>20, <1>21, <1>22, <1>23,
     <1>24, <1>25 DEF Next, Call

\* At the start the semaphore and the thread hold one permit per ring buffer.
LEMMA InitPermits ==
    ASSUME Init
    PROVE  Accounted = RingCount
<1>1. SignalsToCome = 0
  BY SignalsNone DEF Init, SignalsToCome
<1> QED
  BY <1>1, PacingAssumption DEF Init, PermitsHeld, Accounted

-----------------------------------------------------------------------------
(* The generations in flight.                                              *)

\* What the command buffers of q read is within a turn of the ring from the
\* generation now, by the signals that are to come first and the permits that
\* are lost, and is still there.
Fresh(q, now, c, l) ==
    \A i \in 1 .. Len(q) : \A g \in q[i].reads :
        /\ g <= now
        /\ now - g <= SignalsFrom(q, i) + l
        /\ c[Slot(g)] = g

\* A command buffer that reads this generation may be committed: if it signals
\* the next one begins.
LEMMA FreshAppended ==
    ASSUME NEW q \in Seq(CommandBuffers), NEW cb \in CommandBuffers, NEW c, NEW l \in Nat,
           NEW now \in 0 .. MaxGeneration, Fresh(q, now, c, l),
           cb.reads \subseteq {now}, cb.reads # {} => c[Slot(now)] = now,
           NEW next \in Nat, now <= next, next <= now + One(cb.signals)
    PROVE  Fresh(Append(q, cb), next, c, l)
<1> DEFINE q2 == Append(q, cb)
<1>1. /\ q2 \in Seq(CommandBuffers)
      /\ Len(q2) = Len(q) + 1
      /\ \A j \in 1 .. Len(q) : q2[j] = q[j]
      /\ q2[Len(q) + 1] = cb
  OBVIOUS
<1>2. \A i \in 1 .. Len(q) + 1 : SignalsFrom(q2, i) = SignalsFrom(q, i) + One(cb.signals)
  BY SignalsAppended
<1>3. \A i \in 1 .. Len(q) + 1 : SignalsFrom(q, i) \in Nat
  BY SignalsCounted
<1>4. One(cb.signals) \in {0, 1}
  BY DEF One
<1> SUFFICES ASSUME NEW i \in 1 .. Len(q2), NEW g \in q2[i].reads
             PROVE  /\ g <= next
                    /\ next - g <= SignalsFrom(q2, i) + l
                    /\ c[Slot(g)] = g
  BY DEF Fresh
<1>5. CASE i \in 1 .. Len(q)
  <2>1. /\ g <= now
        /\ now - g <= SignalsFrom(q, i) + l
        /\ c[Slot(g)] = g
    BY <1>1, <1>5 DEF Fresh
  <2>2. g \in 0 .. MaxGeneration
    <3>1. q[i] \in CommandBuffers /\ g \in q[i].reads
      BY <1>1, <1>5
    <3> QED
      BY <3>1 DEF CommandBuffers
  <2>3. SignalsFrom(q2, i) = SignalsFrom(q, i) + One(cb.signals) /\ SignalsFrom(q, i) \in Nat
    BY <1>2, <1>3, <1>5
  <2> QED
    BY <1>4, <2>1, <2>2, <2>3
<1>6. CASE i = Len(q) + 1
  <2>1. g = now /\ c[Slot(g)] = g
    BY <1>1, <1>6
  <2>2. SignalsFrom(q2, i) = SignalsFrom(q, i) + One(cb.signals) /\ SignalsFrom(q, i) \in Nat
    BY <1>2, <1>3, <1>6
  <2> QED
    BY <1>4, <2>1, <2>2
<1> QED
  BY <1>1, <1>5, <1>6

\* The next generation may begin if a permit is lost.
LEMMA FreshLost ==
    ASSUME NEW q \in Seq(CommandBuffers), NEW c, NEW l \in Nat,
           NEW now \in 0 .. MaxGeneration, Fresh(q, now, c, l),
           NEW next, next = now + 1, NEW more, more = l + 1
    PROVE  Fresh(q, next, c, more)
<1> SUFFICES ASSUME NEW i \in 1 .. Len(q), NEW g \in q[i].reads
             PROVE  /\ g <= next
                    /\ next - g <= SignalsFrom(q, i) + more
                    /\ c[Slot(g)] = g
  BY DEF Fresh
<1>1. g <= now /\ now - g <= SignalsFrom(q, i) + l /\ c[Slot(g)] = g
  BY DEF Fresh
<1>2. g \in Nat /\ now \in Nat
  <2>1. q[i] \in CommandBuffers
    OBVIOUS
  <2> QED
    BY <2>1 DEF CommandBuffers
<1>3. SignalsFrom(q, i) \in Nat
  BY SignalsCounted
<1> QED
  BY <1>1, <1>2, <1>3

\* The oldest command buffer may go.
LEMMA FreshTail ==
    ASSUME NEW q \in Seq(CommandBuffers), q # << >>, NEW c, NEW now, NEW l, Fresh(q, now, c, l)
    PROVE  Fresh(Tail(q), now, c, l)
<1>1. /\ Len(Tail(q)) = Len(q) - 1
      /\ \A j \in 1 .. Len(q) - 1 : Tail(q)[j] = q[j + 1] /\ j + 1 \in 1 .. Len(q)
  OBVIOUS
<1>2. \A j \in 1 .. Len(q) - 1 : SignalsFrom(Tail(q), j) = SignalsFrom(q, j + 1)
  BY SignalsOfTail
<1> QED
  BY <1>1, <1>2 DEF Fresh

\* This generation may be written while fewer permits than ring buffers are to
\* come or lost.
LEMMA FreshWritten ==
    ASSUME NEW q \in Seq(CommandBuffers), NEW now \in 0 .. MaxGeneration, NEW l \in Nat,
           NEW c \in [0 .. RingCount - 1 -> 0 .. MaxGeneration],
           Fresh(q, now, c, l), SignalsFrom(q, 1) + l < RingCount
    PROVE  Fresh(q, now, [c EXCEPT ![Slot(now)] = now], l)
<1> SUFFICES ASSUME NEW i \in 1 .. Len(q), NEW g \in q[i].reads
             PROVE  [c EXCEPT ![Slot(now)] = now][Slot(g)] = g
  BY DEF Fresh
<1>1. g <= now /\ now - g <= SignalsFrom(q, i) + l /\ c[Slot(g)] = g
  BY DEF Fresh
<1>2. g \in Nat /\ now \in Nat
  <2>1. q[i] \in CommandBuffers
    OBVIOUS
  <2> QED
    BY <2>1 DEF CommandBuffers
<1>3. SignalsFrom(q, i) \in Nat /\ SignalsFrom(q, i) <= SignalsFrom(q, 1)
  BY SignalsCounted
<1>4. SignalsFrom(q, 1) \in Nat /\ RingCount \in Nat
  BY SignalsCounted, PacingAssumption
<1>5. Slot(g) \in 0 .. RingCount - 1
  BY <1>2, SlotInRing
<1>6. CASE g = now
  BY <1>5, <1>6
<1>7. CASE g # now
  <2>1. Slot(g) # Slot(now)
    <3>1. g < now /\ now - g < RingCount
      BY <1>1, <1>2, <1>3, <1>4, <1>7
    <3> QED
      BY <1>2, <3>1, SlotsApart
  <2> QED
    BY <1>1, <1>5, <2>1
<1> QED
  BY <1>6, <1>7

-----------------------------------------------------------------------------
(* An application whose calls are all paced.                               *)

\* Where its thread is: an open command buffer has the slot of its generation
\* and reads no other; a clear that is kept for later has one, too.
PacedControl ==
    /\ open \/ pendingClear => acquired
    /\ open => ~pendingClear
    /\ spent => open
    /\ at \in {"idle", "clear", "gpu"}
    /\ at = "clear" => ~open
    /\ reads \subseteq {gen}
    /\ ~open => reads = {}

\* What is read is there.
PacedReads ==
    /\ reads # {} => content[Slot(gen)] = gen
    /\ Fresh(inFlight, gen, content, lost)

\* The inductive invariant.
PacedInv ==
    /\ Accounted >= RingCount
    /\ workload \subseteq PacedCalls =>
         Accounted = RingCount /\ PacedControl /\ PacedReads

\* A paced application makes none of the other calls, and gets a slot whenever
\* it wants one.
LEMMA PacedExcludes ==
    ASSUME workload \subseteq PacedCalls
    PROVE  /\ {"fboDraw", "rotate", "standalone", "compute", "writeRegion",
               "tessDraw", "lateGpu"} \cap workload = {}
           /\ AcquireReturns => CanAcquire
BY DEF PacedCalls, AcquireReturns

\* The calls that a paced application makes, and the steps that are not calls.
PacedNext ==
    \/ Draw("draw", FALSE)
    \/ Clear \/ Present \/ EndFrame \/ Finish \/ Readback \/ CopyPixels \/ GiveUp
    \/ DrainStandalone \/ DrainStandaloneFails \/ LayeredClear \/ Resize \/ Resolve
    \/ ClearAcquires \/ GpuWaited \/ GpuFinish
    \/ UNCHANGED vars

LEMMA PacedSteps ==
    ASSUME workload \subseteq PacedCalls, PacedControl, [Next]_vars
    PROVE  PacedNext
<1>1. /\ \A s \in {"fboDraw", "rotate", "standalone", "compute", "writeRegion",
                   "tessDraw", "lateGpu"} : s \notin workload
  BY PacedExcludes
<1>2. ASSUME NEW target \in {"draw", "fboDraw"}, NEW rotate \in BOOLEAN,
             Draw(target, rotate)
      PROVE  Draw("draw", FALSE)
  BY <1>1, <1>2 DEF Draw
<1>3. ~PressureFlush /\ ~ComputeDispatch /\ ~LayeredClearLate /\ ~WriteRegion
  BY <1>1 DEF PressureFlush, ComputeDispatch, LayeredClearLate, WriteRegion
<1>4. \A target \in {"tessDefault", "tessFbo"}, drains \in BOOLEAN :
        ~TessCompute(target, drains)
  BY <1>1 DEF TessCompute
<1>5. ~TessRenderDefault /\ ~TessRenderFbo /\ ~TessRenderFboFails
  BY DEF PacedControl, TessRenderDefault, TessRenderFbo, TessRenderFboFails
<1> QED
  BY <1>2, <1>3, <1>4, <1>5 DEF Next, Call, PacedNext

\* The application stays the one it is.
LEMMA WorkloadKept ==
    ASSUME [Next]_vars
    PROVE  workload' = workload
BY DEF Next, Call, Draw, PressureFlush, ComputeDispatch, Clear, Present, EndFrame,
       Finish, Readback, CopyPixels, GiveUp, DrainStandalone, LayeredClear,
       LayeredClearLate, Resize, Resolve, WriteRegion, TessCompute, ClearAcquires,
       TessRenderDefault, TessRenderFbo, TessRenderFboFails, DrainStandaloneFails,
       GpuWaited, GpuFinish, vars, clears

\* The thread of a paced application opens command buffers with a slot only.
LEMMA PacedControlKept ==
    ASSUME TypeOK, workload \subseteq PacedCalls, PacedControl, PacedNext
    PROVE  PacedControl'
<1>1. CASE Draw("draw", FALSE)
  <2>1. CanAcquire
    BY <1>1, PacedExcludes DEF Draw
  <2> QED
    BY <1>1, <2>1 DEF Draw, DefaultPass, clears, PacedControl
<1>2. CASE Clear
  <2>1. CanAcquire
    BY <1>2, PacedExcludes DEF Clear
  <2>2. CASE open
    BY <1>2, <2>2 DEF Clear, Advance, Close, PacedControl
  <2>3. CASE ~open
    BY <1>2, <2>1, <2>3 DEF Clear, PacedControl
  <2> QED
    BY <2>2, <2>3
<1>3. CASE Present
  BY <1>3 DEF Present, OpenAfterFlush, Advance, Close, buffers, PacedControl
<1>4. CASE EndFrame
  BY <1>4 DEF EndFrame, Advance, Close, buffers, PacedControl
<1>5. CASE Finish
  BY <1>5 DEF Finish, OpenAfterFlush, Advance, Close, buffers, PacedControl
<1>6. CASE Readback
  BY <1>6 DEF Readback, ReleaseSlotNow, Close, PacedControl
<1>7. CASE CopyPixels
  BY <1>7 DEF CopyPixels, ReleaseSlotNow, Close, PacedControl
<1>8. CASE GiveUp
  BY <1>8 DEF GiveUp, OpenAfterFlush, Close, clears, PacedControl
<1>9. CASE DrainStandalone
  BY <1>9 DEF DrainStandalone, ReleaseSlotNow, Close, PacedControl
<1>10. CASE LayeredClear
  BY <1>10 DEF LayeredClear, Close, PacedControl
<1>11. CASE Resize
  BY <1>11 DEF Resize, Advance, Close, PacedControl
<1>12. CASE Resolve
  <2>1. CanAcquire
    BY <1>12, PacedExcludes DEF Resolve
  <2> QED
    BY <1>12, <2>1 DEF Resolve, DefaultPass, clears, PacedControl
<1>13. CASE ClearAcquires
  <2>1. CanAcquire
    BY <1>13, PacedExcludes DEF ClearAcquires
  <2> QED
    BY <1>13, <2>1 DEF ClearAcquires, PacedControl
<1>14. CASE GpuWaited
  BY <1>14 DEF GpuWaited, buffers, clears, PacedControl
<1>15. CASE GpuFinish
  BY <1>15 DEF GpuFinish, clears, PacedControl
<1>16. CASE UNCHANGED vars
  BY <1>16 DEF vars, PacedControl
<1>17. CASE DrainStandaloneFails
  BY <1>17 DEF DrainStandaloneFails, Spend, clears, PacedControl
<1> QED
  BY <1>1, <1>2, <1>3, <1>4, <1>5, <1>6, <1>7, <1>8, <1>9, <1>10, <1>11, <1>12,
     <1>13, <1>14, <1>15, <1>16, <1>17 DEF PacedNext

\* A command buffer is committed behind the others, and if it signals the next
\* generation begins.
LEMMA CommitReads ==
    ASSUME TypeOK, TypeOK', PacedControl, PacedReads, NEW b \in BOOLEAN,
           inFlight' = Append(inFlight, [reads |-> reads, signals |-> b]),
           gen' = gen \/ (b /\ gen' = gen + 1), reads' = {}, UNCHANGED <<content, lost>>
    PROVE  PacedReads'
<1> DEFINE cb == [reads |-> reads, signals |-> b]
<1>1. /\ inFlight \in Seq(CommandBuffers) /\ cb \in CommandBuffers
      /\ gen \in 0 .. MaxGeneration /\ gen' \in Nat /\ lost \in Nat
  BY DEF TypeOK, CommandBuffers
<1>2. cb.reads \subseteq {gen} /\ (cb.reads # {} => content[Slot(gen)] = gen)
  BY DEF PacedControl, PacedReads
<1>3. gen <= gen' /\ gen' <= gen + One(cb.signals)
  BY <1>1 DEF One
<1>4. Fresh(inFlight, gen, content, lost)
  BY DEF PacedReads
<1>5. Fresh(Append(inFlight, cb), gen', content, lost)
  BY <1>1, <1>2, <1>3, <1>4, FreshAppended
<1> QED
  BY <1>5 DEF PacedReads

\* The slot of a spent command buffer is lost, and the next generation begins.
LEMMA LostReads ==
    ASSUME TypeOK, PacedReads, gen' = gen + 1, lost' = lost + 1, reads' = {},
           UNCHANGED <<inFlight, content>>
    PROVE  PacedReads'
<1>1. inFlight \in Seq(CommandBuffers) /\ gen \in 0 .. MaxGeneration /\ lost \in Nat
  BY DEF TypeOK
<1>2. Fresh(inFlight, gen + 1, content, lost + 1)
  BY <1>1, FreshLost DEF PacedReads
<1> QED
  BY <1>2 DEF PacedReads

\* Either way, with a slot that is held.
LEMMA FrameSignalReads ==
    ASSUME TypeOK, TypeOK', PacedControl, PacedReads, NEW held, held,
           CommitWithFrameSignal(held), gen' = gen + 1, reads' = {}, UNCHANGED content
    PROVE  PacedReads'
<1>1. CASE spent
  BY <1>1, LostReads DEF CommitWithFrameSignal
<1>2. CASE ~spent
  BY <1>2, CommitReads DEF CommitWithFrameSignal
<1> QED
  BY <1>1, <1>2

\* Nothing is in flight.
LEMMA DrainedReads ==
    ASSUME GpuIdle, reads' = {}, UNCHANGED inFlight
    PROVE  PacedReads'
<1>1. Len(inFlight') = 0
  BY DEF GpuIdle
<1> QED
  BY <1>1 DEF PacedReads, Fresh

\* The ring and what reads it stay as they are.
LEMMA SameReads ==
    ASSUME PacedReads, reads' \subseteq reads, UNCHANGED <<gen, inFlight, content, lost>>
    PROVE  PacedReads'
BY DEF PacedReads, Fresh, Slot

\* A paced draw writes into a ring buffer no unfinished command buffer reads.
LEMMA DrawReads ==
    ASSUME TypeOK, TypeOK', Accounted' = RingCount, PacedReads,
           acquired', UNCHANGED <<gen, inFlight, lost>>, Write(gen)
    PROVE  PacedReads'
<1>1. /\ inFlight \in Seq(CommandBuffers) /\ gen \in 0 .. MaxGeneration
      /\ content \in [0 .. RingCount - 1 -> 0 .. MaxGeneration]
      /\ content' = [content EXCEPT ![Slot(gen)] = gen]
      /\ permits' \in Nat
  BY DEF TypeOK, Write
<1>2. SignalsFrom(inFlight, 1) + lost < RingCount
  <2>1. /\ SignalsToCome' = SignalsFrom(inFlight, 1) /\ SignalsToCome' \in Nat
        /\ lost' = lost /\ lost' \in Nat
    BY HeldAfter DEF SignalsToCome
  <2>2. Accounted' = permits' + SignalsToCome' + 1 + lost'
    BY HeldAfter DEF One
  <2> QED
    BY <1>1, <2>1, <2>2
<1>3. Fresh(inFlight, gen, content', lost)
  BY <1>1, <1>2, FreshWritten DEF PacedReads, TypeOK
<1>4. content'[Slot(gen)] = gen
  BY <1>1, SlotInRing
<1> QED
  BY <1>3, <1>4 DEF PacedReads, Slot

\* No step of a paced application disturbs what is read.
LEMMA PacedReadsKept ==
    ASSUME TypeOK, TypeOK', workload \subseteq PacedCalls, Accounted' = RingCount,
           PacedControl, PacedControl', PacedReads, PacedNext
    PROVE  PacedReads'
<1>0. open \/ pendingClear => acquired
  BY DEF PacedControl
<1>1. CASE Draw("draw", FALSE)
  <2>1. acquired'
    BY <1>1, PacedExcludes DEF Draw
  <2> QED
    BY <1>1, <2>1, DrawReads DEF Draw
<1>2. CASE Clear
  <2>1. CASE open
    <3>1. CanAcquire
      BY <1>2, PacedExcludes DEF Clear
    <3> QED
      BY <1>2, <2>1, <3>1, FrameSignalReads DEF Clear, Advance, Close
  <2>2. CASE ~open
    BY <1>2, <2>2, SameReads DEF Clear
  <2> QED
    BY <2>1, <2>2
<1>3. CASE Present
  <2>1. CASE OpenAfterFlush /\ (pendingClear \/ pendingPresent)
    BY <1>3, <2>1, <1>0, FrameSignalReads DEF Present, OpenAfterFlush, Advance, Close
  <2>2. CASE ~(OpenAfterFlush /\ (pendingClear \/ pendingPresent))
    BY <1>3, <2>2, SameReads DEF Present, buffers
  <2> QED
    BY <2>1, <2>2
<1>4. CASE EndFrame
  <2>1. CASE open
    BY <1>4, <2>1, <1>0, FrameSignalReads DEF EndFrame, Advance, Close
  <2>2. CASE ~open
    BY <1>4, <2>2, SameReads DEF EndFrame, buffers
  <2> QED
    BY <2>1, <2>2
<1>5. CASE Finish
  <2>1. CASE OpenAfterFlush
    BY <1>5, <2>1, <1>0, FrameSignalReads DEF Finish, OpenAfterFlush, Advance, Close
  <2>2. CASE ~OpenAfterFlush
    BY <1>5, <2>2, SameReads DEF Finish, buffers
  <2> QED
    BY <2>1, <2>2
<1>6. CASE Readback
  BY <1>6, DrainedReads DEF Readback, Close
<1>7. CASE CopyPixels
  BY <1>7, DrainedReads DEF CopyPixels, Close
<1>8. CASE GiveUp
  <2>1. CASE spent
    BY <1>8, <2>1, SameReads DEF GiveUp, CommitWithoutSignal, Close
  <2>2. CASE ~spent
    BY <1>8, <2>2, CommitReads DEF GiveUp, CommitWithoutSignal, Close
  <2> QED
    BY <2>1, <2>2
<1>9. CASE DrainStandalone
  BY <1>9, DrainedReads DEF DrainStandalone, Close
<1>10. CASE LayeredClear
  <2>1. acquired
    BY <1>0, <1>10 DEF LayeredClear
  <2> QED
    BY <1>10, <2>1, FrameSignalReads DEF LayeredClear, Close
<1>11. CASE Resize
  <2>1. CASE open /\ ~spent
    BY <1>11, <2>1, <1>0, FrameSignalReads DEF Resize, Advance, Close
  <2>2. CASE ~(open /\ ~spent)
    BY <1>11, <2>2, SameReads DEF Resize, Close
  <2> QED
    BY <2>1, <2>2
<1>12. CASE Resolve
  BY <1>12, SameReads DEF Resolve
<1>13. CASE ClearAcquires
  BY <1>13, SameReads DEF ClearAcquires
<1>14. CASE GpuWaited
  BY <1>14, SameReads DEF GpuWaited, buffers
<1>15. CASE GpuFinish
  <2>1. Fresh(Tail(inFlight), gen, content, lost)
    BY <1>15, FreshTail DEF GpuFinish, GpuIdle, TypeOK, PacedReads
  <2> QED
    BY <1>15, <2>1 DEF GpuFinish, PacedReads, Slot
<1>16. CASE UNCHANGED vars
  BY <1>16, SameReads DEF vars
<1>17. CASE DrainStandaloneFails
  BY <1>17, CommitReads DEF DrainStandaloneFails, Spend
<1> QED
  BY <1>1, <1>2, <1>3, <1>4, <1>5, <1>6, <1>7, <1>8, <1>9, <1>10, <1>11, <1>12,
     <1>13, <1>14, <1>15, <1>16, <1>17 DEF PacedNext

-----------------------------------------------------------------------------
\* The invariant holds at the start: nothing is in flight.
LEMMA InitPacedInv ==
    ASSUME Init
    PROVE  PacedInv
<1>1. Accounted = RingCount /\ RingCount \in Nat
  BY InitPermits, PacingAssumption
<1>2. PacedControl
  BY DEF Init, PacedControl
<1>3. PacedReads
  BY DEF Init, PacedReads, Fresh
<1> QED
  BY <1>1, <1>2, <1>3 DEF PacedInv

\* And every step preserves it.
LEMMA NextPacedInv ==
    ASSUME TypeOK, TypeOK', PacedInv, [Next]_vars
    PROVE  PacedInv'
<1>1. PermitsKept
  BY StepKeepsPermits
<1>2. Accounted' >= RingCount
  <2>1. Accounted \in Nat /\ Accounted' \in Nat /\ RingCount \in Nat
    BY HeldCounted, HeldAfter, PacingAssumption
  <2> QED
    BY <1>1, <2>1 DEF PermitsKept, PacedInv
<1>3. ASSUME workload' \subseteq PacedCalls
      PROVE  Accounted' = RingCount /\ PacedControl' /\ PacedReads'
  <2>1. workload \subseteq PacedCalls
    BY <1>3, WorkloadKept
  <2>2. Accounted = RingCount /\ PacedControl /\ PacedReads
    BY <2>1 DEF PacedInv
  <2>3. Accounted' = RingCount
    <3>1. SlotBehindWork
      BY <2>1, <2>2, PacedExcludes DEF SlotBehindWork, PacedControl
    <3> QED
      BY <1>1, <2>2, <3>1 DEF PermitsKept
  <2>4. PacedNext
    BY <2>1, <2>2, PacedSteps
  <2>5. PacedControl'
    BY <2>1, <2>2, <2>4, PacedControlKept
  <2>6. PacedReads'
    BY <2>1, <2>2, <2>3, <2>4, <2>5, PacedReadsKept
  <2> QED
    BY <2>3, <2>5, <2>6
<1> QED
  BY <1>2, <1>3 DEF PacedInv

\* The inductive invariant is invariant.
THEOREM SpecPacedInv == Spec => []PacedInv
<1>1. Init => PacedInv
  BY InitPacedInv
<1>2. TypeOK /\ TypeOK' /\ PacedInv /\ [Next]_vars => PacedInv'
  BY NextPacedInv
<1> QED
  BY <1>1, <1>2, SpecTypeOK, PTL DEF Spec

\* Each permit is accounted for, whatever the calls and whichever waits give up:
\* only the commit of a command buffer that a failed drain has spent loses one.
\* And none is made up by an application whose calls are paced.
THEOREM SpecSlotsBalanced == Spec => []SlotsBalanced
<1>1. PacedInv => SlotsBalanced
  BY DEF PacedInv, SlotsBalanced, Accounted
<1> QED
  BY <1>1, SpecPacedInv, PTL

\* An application whose calls are paced never has a ring buffer rewritten that
\* an unfinished command buffer reads, however many buffers the ring has.
THEOREM SpecPacedSlotNotOverwritten == Spec => []PacedSlotNotOverwritten
<1>1. TypeOK /\ PacedInv => PacedSlotNotOverwritten
  <2> SUFFICES ASSUME TypeOK, PacedInv, workload \subseteq PacedCalls
               PROVE  SlotNotOverwritten
    BY DEF PacedSlotNotOverwritten
  <2>1. Fresh(inFlight, gen, content, lost)
    BY DEF PacedInv, PacedReads
  <2>2. DOMAIN inFlight = 1 .. Len(inFlight)
    BY DEF TypeOK
  <2> QED
    BY <2>1, <2>2 DEF SlotNotOverwritten, Fresh
<1> QED
  BY <1>1, SpecTypeOK, SpecPacedInv, PTL

=============================================================================
