------------------------- MODULE MCContextRegistry -------------------------
(***************************************************************************)
(* Instances of ContextRegistry for TLC.                                   *)
(***************************************************************************)
EXTENDS ContextRegistry, TLC

Symmetry == Permutations(Threads) \cup Permutations(Addresses)

=============================================================================
