SPECIFICATION Spec
CONSTANTS
    Jobs = {j1, j2}
    Threads = {t1, t2}
    Handlers = {h1, h2}
    NoJob = NoJob
    NumSteps = 2
    MaxCalls = 5
    MaxCrashes = 1
SYMMETRY Symmetry
INVARIANTS LifecycleInv StagingExclusive ActiveHasOwner CompletedIsQuiet AtMostOnce
PROPERTIES CompletedNotUndone OneShotRefinement
\* Requests are bounded and nobody must make one: the system may stop.
CHECK_DEADLOCK FALSE
