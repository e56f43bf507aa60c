------------------------- MODULE CommandBufferPool -------------------------
(***************************************************************************)
(* What the command submission layer promises its callers, without         *)
(* semaphores, leases or handlers: at most Bound command buffers are       *)
(* outstanding, a buffer that was handed out is either dropped by its      *)
(* holder or submitted, whatever is submitted finishes and then settles,   *)
(* which makes room for another buffer.  A drain succeeds only when the    *)
(* GPU has finished everything submitted, though not all of it need have   *)
(* settled.                                                                *)
(***************************************************************************)
EXTENDS Naturals, FiniteSets

CONSTANTS
    Buffers,    \* the command buffers a run may create
    Bound       \* the most that may be outstanding at any time

VARIABLES
    life,       \* life[b]: where b is between creation and settlement
    quiet       \* the last drain succeeded and nothing was submitted since

poolVars == <<life, quiet>>

Lives == {"unborn", "leased", "submitted", "finished", "settled"}

Outstanding == {b \in Buffers : life[b] \in {"leased", "submitted", "finished"}}

PoolTypeOK ==
    /\ life \in [Buffers -> Lives]
    /\ quiet \in BOOLEAN

PoolInit ==
    /\ life = [b \in Buffers |-> "unborn"]
    /\ quiet = FALSE

\* A buffer is handed out while there is room for it.
Issue(b) ==
    /\ life[b] = "unborn"
    /\ Cardinality(Outstanding) < Bound
    /\ life' = [life EXCEPT ![b] = "leased"]
    /\ UNCHANGED quiet

\* Its holder submits it to the queue ...
Submit(b) ==
    /\ life[b] = "leased"
    /\ life' = [life EXCEPT ![b] = "submitted"]
    /\ quiet' = FALSE

\* ... and the GPU finishes it.
Finish(b) ==
    /\ life[b] = "submitted"
    /\ life' = [life EXCEPT ![b] = "finished"]
    /\ UNCHANGED quiet

\* A finished buffer, or one its holder gives up, makes room again.
Settle(b) ==
    /\ life[b] \in {"leased", "finished"}
    /\ life' = [life EXCEPT ![b] = "settled"]
    /\ UNCHANGED quiet

\* A drain reports success, and only when the GPU is through.
\* One that gives up reports failure whatever is in flight.
Drain ==
    /\ quiet' \in BOOLEAN
    /\ quiet' => \A b \in Buffers : life[b] # "submitted"
    /\ UNCHANGED life

PoolNext ==
    \/ \E b \in Buffers : Issue(b) \/ Submit(b) \/ Finish(b) \/ Settle(b)
    \/ Drain

\* Whatever was submitted finishes and settles; a holder need do nothing.
PoolFairness ==
    \A b \in Buffers :
        /\ WF_poolVars(Finish(b))
        /\ WF_poolVars(life[b] = "finished" /\ Settle(b))

PoolSpec == PoolInit /\ [][PoolNext]_poolVars /\ PoolFairness

=============================================================================
