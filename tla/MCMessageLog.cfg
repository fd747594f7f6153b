SPECIFICATION Spec
CONSTANTS
    Channels <- MCChannels
    Threads = {"thread"}
    Parent <- MCParent
    NoChannel = "none"
    Messages <- MCMessages
    Proxies = {"proxy"}
    Original <- MCOriginal
    Users <- MCUsers
    Author <- MCAuthor
    NewChannels = {"new"}
    Scenes <- MCScenes
    Edits = {"edit1", "edit2", "edit3"}
    EditOf <- MCEditOf
    Created = "created"
    Lengths <- MCLengths
    TestMode = FALSE
    MaxLate = 2
    MaxFailures = 1
    MaxApiFailures = 1
    NoMessage = NoMessage
    NoRow = NoRow
INVARIANTS
    IInv
    DeletedRowsGone
    DeletionsLogged
    LogsRouted
    EditLogsFit
PROPERTY PKInfoKept
CHECK_DEADLOCK FALSE
