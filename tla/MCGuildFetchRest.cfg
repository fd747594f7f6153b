SPECIFICATION Spec
CONSTANTS
    g1 = g1
    g2 = g2
    w1 = w1
    w2 = w2
    Guilds = {g1, g2}
    NoGuild = NoGuild
    Hidden = {}
    Chunks = 2
    Workers = {w1, w2}
    Settings <- FailingList
PROPERTY InvitesFetched
CHECK_DEADLOCK FALSE
