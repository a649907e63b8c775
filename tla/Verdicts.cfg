SPECIFICATION VerdictsSpec
CONSTANTS
    NumRows = 3
    Values <- MCValues
    Addresses <- MCAddresses
    AddressOf <- MCAddressOf
    RawInvalid <- MCRawInvalid
    Unsplittable = {"info"}
    Malformed <- MCMalformed
    OneCharacter = {"7@acme.com"}
    Numeric = {"7@acme.com"}
    SameAsDomain = {"acme@acme.com"}
    Titles = {"intern", "cto"}
    Industries = {"staffing", "tech"}
    MaxEdits = 0
INVARIANTS KeptIsWellFormed AgreesWithRowByRow
\* A run that has ended has no next step.
CHECK_DEADLOCK FALSE
