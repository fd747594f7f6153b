SPECIFICATION Spec
CONSTANTS
    IDs = {1, 2, 3, 4}
    Contents = {"", "None", "text", "corrupt"}
    Empty = ""
    None = "None"
    Corrupt = "corrupt"
    OldRows <- MCOldRows
    Accounts = {"old", "new"}
    OldTables <- MCOldTables
    NewTables <- MCNewTables
    PageSize = 2
    NoRow = NoRow
    MaxWrites = 2
    MaxFailures = 2
INVARIANTS
    CopiedAll
    OnlyThisRun
PROPERTIES
    ImportEnds
CHECK_DEADLOCK FALSE
