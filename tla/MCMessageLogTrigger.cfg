SPECIFICATION Spec
CONSTANTS
    Channels <- MCChannels
    Threads = {"thread"}
    Parent <- MCParent
    NoChannel = "none"
    Messages <- MCMessages
    Proxies = {"proxy"}
    Original <- MCOriginal
    Users <- MCUsers
    Author <- MCAuthor
    NewChannels = {"new"}
    Scenes <- PKScene
    Edits = {"edit1", "edit2", "edit3"}
    EditOf <- MCEditOf
    Created = "created"
    Lengths <- MCLengths
    TestMode = FALSE
    MaxLate = 0
    MaxFailures = 0
    MaxApiFailures = 0
    NoMessage = NoMessage
    NoRow = NoRow
INVARIANT TriggersNotLogged
CHECK_DEADLOCK FALSE
