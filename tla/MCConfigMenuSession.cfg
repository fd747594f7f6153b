SPECIFICATION FairSpec
CONSTANTS
    e1 = e1
    e2 = e2
    c1 = c1
    c2 = c2
    Sessions = {s1}
    Events = {e1, e2}
    Channels = {c1, c2}
    Settings <- MCSessionSettings
    NoRow = NoRow
    ShouldLog = TRUE
    Unset = Unset
    Nothing = Nothing
    MaxFaults = 1
INVARIANTS
    IInv
    ChoicesKept
    ClearedUnlessPageEnded
    CrashTakesSecondPress
    JoinLoggedOnce
PROPERTY SessionsEnd
CHECK_DEADLOCK FALSE
