-------------------------- MODULE MCCoverageStore --------------------------
(***************************************************************************)
(* An instance of CoverageStore for TLC.                                   *)
(***************************************************************************)
EXTENDS CoverageStore, TLC

Symmetry == Permutations(Threads) \cup Permutations(Notes) \cup Permutations(Tests)

=============================================================================
