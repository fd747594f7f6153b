SPECIFICATION Spec
CONSTANTS
    g1 = g1
    g2 = g2
    w1 = w1
    w2 = w2
    Guilds = {g1, g2}
    NoGuild = NoGuild
    Hidden = {g2}
    Chunks = 2
    Workers = {w1, w2}
    Settings <- MCSettings
INVARIANTS
    IInv
    NeverForgotten
    CachedMeansStored
PROPERTY EventuallyFetched
CHECK_DEADLOCK FALSE
