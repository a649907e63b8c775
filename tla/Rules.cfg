SPECIFICATION TwinsSpec
CONSTANTS
    Subjects <- MCSubjects
    Alphabet <- MCAlphabet
    MaxValue <- MCMaxValue
    MaxOther <- MCMaxOther
    Ordinals <- MCOrdinals
    LowerOf <- MCLowerOf
    PatternLimit = 8
    NameLimit = 3
    IdentifierLimit = 8
INVARIANTS WildcardsAgree AddressesAgree NumericAgrees DomainsAgree ColumnNamesDistinct
\* Words stop growing at their greatest length.
CHECK_DEADLOCK FALSE
