SPECIFICATION Spec
CONSTANTS
    j1 = j1
    j2 = j2
    a = a
    b = b
    c = c
    Jobs = {j1, j2}
    Addresses = {a, b, c}
    Mergers = {m1, m2}
    NoJob = NoJob
    KeptFiles <- DistinctFiles
    OtherRows <- MCOtherRows
    MaxRequests = 2
    MaxCrashes = 1
SYMMETRY Symmetry
INVARIANTS RecheckProtects
\* Requests are bounded and nobody must make one: the system may stop.
CHECK_DEADLOCK FALSE
