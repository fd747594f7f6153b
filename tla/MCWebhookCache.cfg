SPECIFICATION Spec
CONSTANTS
    other = other
    unset = unset
    Sends = {s1, s2, s3, other, unset}
    Channels = {"messages", "audit"}
    Target <- MCTarget
    Given <- MCGiven
    Foreign <- MCForeign
    NoChannel = NoChannel
    NoHook = NoHook
    MaxOverlap = 2
    MaxFaults = 1
    MaxDeletions = 1
    MaxRestarts = 1
INVARIANTS
    IInv
    LostOnlyByFaults
    HooksBounded
SYMMETRY SameSends
CHECK_DEADLOCK FALSE
