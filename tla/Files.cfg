SPECIFICATION FilesSpec
CONSTANTS
    Cells <- MCCells
    Null = Null
    Empty = ""
    Blanks <- MCBlanks
    KeyOf <- MCKeyOf
    Files <- AllFiles
    ChunkSize = 2
    TooLong = {"long"}
    MaxErrors = 2
    MaxAttempts = 2
    NoTable = NoTable
    Categories = {"KEPT", "OTHER_TLD"}
    MaxRowsPerSheet = 2
    NoFile = NoFile
    Torn = Torn
INVARIANTS TableIsEmptyOrWhole CellsUnderTheirHeaders RecordedIsWhole SheetsHoldCategory EveryRowDelivered
\* A job that is done, or has failed for the last time, stays so.
CHECK_DEADLOCK FALSE
