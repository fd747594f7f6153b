SPECIFICATION Spec
CONSTANTS
    e1 = e1
    e2 = e2
    c1 = c1
    c2 = c2
    Sessions = {s1, s2}
    Events = {e1, e2}
    Channels = {c1}
    Settings <- MCSettings
    NoRow = NoRow
    ShouldLog = TRUE
    Unset = Unset
    Nothing = Nothing
    MaxFaults = 0
SYMMETRY MCSymmetry
INVARIANT ChoicesKept
CHECK_DEADLOCK FALSE
