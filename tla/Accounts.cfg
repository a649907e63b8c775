SPECIFICATION AccountSpec
CONSTANTS
    Handlers = {h1, h2}
    MaxRequests = 2
    Names = {admin, ann}
    Emails = {"e1", "e2"}
    Seeded <- MCSeeded
    Roles <- MCRoles
    Updates <- MCUpdates
    DefaultName = admin
    DefaultEmail = "e1"
    Backends = {b1, b2}
    NoAccount = NoAccount
    Keep = Keep
SYMMETRY Symmetry
INVARIANTS AccountInv
PROPERTIES DefaultOnlyWhenEmpty LockOutTakesARace UpdateIsWhole
\* Requests are bounded and nobody must make one: the system may stop.
CHECK_DEADLOCK FALSE
