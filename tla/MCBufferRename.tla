--------------------------- MODULE MCBufferRename ---------------------------
(***************************************************************************)
(* Two buffer objects, a few allocations and the applications for the      *)
(* model of buffer renaming.                                               *)
(***************************************************************************)
EXTENDS BufferRename, TLC

CONSTANTS b1, b2, a1, a2, a3, a4

Start == b1 :> a1 @@ b2 :> a2

\* An orderly one, and one with every commit and failure.
MCWorkloads ==
    {[kind |-> b1 :> "plain" @@ b2 :> "texbuf", commits |-> {}, failures |-> {}],
     [kind |-> b1 :> "plain" @@ b2 :> "pinned", commits |-> {"separate", "rotate"},
      failures |-> {"allocation"}],
     [kind |-> b1 :> "plain" @@ b2 :> "texbuf", commits |-> {},
      failures |-> {"drain"}]}

\* Those where one thing only may go wrong.
DrainFails == {[kind |-> b1 :> "plain" @@ b2 :> "texbuf", commits |-> {}, failures |-> {"drain"}]}
AllocationFails ==
    {[kind |-> b1 :> "plain" @@ b2 :> "texbuf", commits |-> {}, failures |-> {"allocation"}]}

=============================================================================
