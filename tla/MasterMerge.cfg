SPECIFICATION Spec
CONSTANTS
    j1 = j1
    j2 = j2
    a = a
    b = b
    c = c
    Jobs = {j1, j2}
    Addresses = {a, b, c}
    Mergers = {m1, m2}
    NoJob = NoJob
    KeptFiles <- MCKeptFiles
    OtherRows <- MCOtherRows
    MaxRequests = 2
    MaxCrashes = 1
SYMMETRY Symmetry
INVARIANTS MergeInv EntriesAddUp RowsAccounted RecordedIsMerged
PROPERTIES BookRefinement
\* Requests are bounded and nobody must make one: the system may stop.
CHECK_DEADLOCK FALSE
