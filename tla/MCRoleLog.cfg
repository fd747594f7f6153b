SPECIFICATION Spec
CONSTANTS
    Roles = {r1, r2, r3}
    OldRoles = {r1, r2}
    Role <- MCRole
    Shown <- MCShown
    Ages <- MCAges
    NotFound = NotFound
    ShouldLog = TRUE
    MaxEvents = 2
    MaxDisconnects = 1
INVARIANTS
    IInv
    StoreFollowsDiscord
    LogsMatchChanges
    DeletionLogsShowAges
CHECK_DEADLOCK FALSE
