SPECIFICATION CleanupSpec
CONSTANTS
    Jobs = {j1}
    Threads = {t1}
    Handlers = {h1, h2}
    NoJob = NoJob
    NumSteps = 1
    MaxCalls = 3
    MaxCrashes = 0
    MaxCleanups = 1
SYMMETRY Symmetry
PROPERTIES DropOnlyTerminal
\* Requests and cleanups are bounded and nobody must make one: the system may stop.
CHECK_DEADLOCK FALSE
