--------------------------- MODULE MCJobLifecycle ---------------------------
(* Instances of JobLifecycle for TLC.                                      *)
EXTENDS JobLifecycle, TLC

\* Threads and handlers are interchangeable, and so are the jobs.  Only runs
\* without liveness properties use it.
Symmetry == Permutations(Threads) \cup Permutations(Handlers) \cup Permutations(Jobs)
=============================================================================
