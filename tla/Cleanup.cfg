SPECIFICATION CleanupSpec
CONSTANTS
    Jobs = {j1}
    Threads = {t1}
    Handlers = {h1, h2}
    NoJob = NoJob
    NumSteps = 1
    MaxCalls = 4
    MaxCrashes = 1
    MaxCleanups = 2
SYMMETRY Symmetry
INVARIANTS ActiveHasOwner
PROPERTIES LeftoverDropIsSafe
\* Requests and cleanups are bounded and nobody must make one: the system may stop.
CHECK_DEADLOCK FALSE
