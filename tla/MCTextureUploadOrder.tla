------------------------ MODULE MCTextureUploadOrder ------------------------
(***************************************************************************)
(* Small workloads for the texture upload model.                           *)
(***************************************************************************)
EXTENDS TextureUploadOrder, TLC

CONSTANTS t1, t2

\* Two tracked applications, one that is not, and one where waits and uploads fail.
MCWorkloads ==
    {{"rotate", "wait"}, {"layeredClear", "wait"},
     {"rotate", "layeredClear", "reupload", "descriptor"},
     {"layeredClear", "giveUp", "unstaged"}}

\* Those where one thing only goes wrong.
GivesUp == {{"giveUp"}}
Unstaged == {{"unstaged"}}

Symmetry == Permutations({t1, t2})

=============================================================================
