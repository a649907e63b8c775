SPECIFICATION EditsSpec
CONSTANTS
    NumRows = 2
    Values <- MCValues
    Addresses <- MCAddresses
    AddressOf <- MCAddressOf
    RawInvalid <- MCRawInvalid
    Unsplittable = {"info"}
    Malformed <- MCMalformed
    OneCharacter = {"7@acme.com"}
    Numeric = {"7@acme.com"}
    SameAsDomain = {"acme@acme.com"}
    Titles = {"intern", "cto"}
    Industries = {"staffing", "tech"}
    MaxEdits = 2
INVARIANTS FilesMatchSummary OneRowPerAddress
PROPERTIES VerdictStands
\* A run that has ended has no next step.
CHECK_DEADLOCK FALSE
