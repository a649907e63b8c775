SPECIFICATION ListSpec
CONSTANTS
    Handlers = {h1, h2}
    MaxRequests = 3
    Ids = {i1, i2, i3}
    Values <- MCValues
    Keys = {"GMAIL", "AOL"}
    KeyOf <- MCKeyOf
    Pastes <- MCPastes
    MaxParameters = 2
    NoEntry = NoEntry
    Gone = Gone
SYMMETRY Symmetry
INVARIANTS ListInv
PROPERTIES AddRefusedWithCause AddLeavesNothingOut EditsDoNotOverwrite ListRefinement
\* Requests are bounded and nobody must make one: the system may stop.
CHECK_DEADLOCK FALSE
