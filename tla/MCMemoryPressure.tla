-------------------------- MODULE MCMemoryPressure --------------------------
(***************************************************************************)
(* Instances of MemoryPressure for TLC: the watermarks of the middle class *)
(* divided by 100, and ratios on both sides of the ones that matter.       *)
(***************************************************************************)
EXTENDS MemoryPressure, TLC

CONSTANTS c1, c2

MidWatermarks ==
    [softTarget |-> 80, hardTarget |-> 100, criticalTarget |-> 110,
     softExit |-> 72, hardExit |-> 90, criticalExit |-> 100]

\* One ratio in each of two bands in which the machine remembers: at 95 Hard is
\* kept but not entered, at 105 Critical is.
Bands == {95, 105}

=============================================================================
