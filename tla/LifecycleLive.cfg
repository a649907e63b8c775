SPECIFICATION LiveSpec
CONSTANTS
    Jobs = {j1}
    Threads = {t1, t2}
    Handlers = {h1, h2}
    NoJob = NoJob
    NumSteps = 2
    MaxCalls = 4
    MaxCrashes = 1
PROPERTIES CancelSettles WorkDrains
\* Requests are bounded and nobody must make one: the system may stop.
CHECK_DEADLOCK FALSE
