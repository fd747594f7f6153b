SPECIFICATION Spec
CONSTANTS
    Invites = {i1, i2, i3}
    OldInvites = {i1}
    NoList = NoList
    ShouldLog = TRUE
    MaxEvents = 4
    MaxFaults = 1
INVARIANTS
    IInv
    UpToDateUnlessCrossed
    DeletionsLogged
CHECK_DEADLOCK FALSE
