---------------------------- MODULE MCJobCleanup ----------------------------
(* Instances of JobCleanup for TLC.                                        *)
EXTENDS JobCleanup, TLC

Symmetry == Permutations(Handlers)
=============================================================================
