--------------------------- MODULE MCMasterMerge ---------------------------
(* Instances of MasterMerge for TLC.                                       *)
EXTENDS MasterMerge, TLC

CONSTANTS j1, j2, a, b, c

\* Files that overlap, one that repeats an address, and one with nothing kept.
MCKeptFiles == {<<a, b>>, <<b, a>>, <<c, b>>, <<a, a>>, <<>>}
DistinctFiles == {<<a, b>>, <<c, b>>}
MCOtherRows == (j1 :> 1) @@ (j2 :> 0)

Symmetry == Permutations(Mergers)
=============================================================================
