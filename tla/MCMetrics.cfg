SPECIFICATION MetricsSpec
CONSTANTS
    Names = {e1, e2}
    Endpoints = {r1}
    Queries = Queries
    Commands = Commands
    Submissions = {s1, s2}
    Wrap = 2
    MaxCounts = 2
INVARIANTS
    MetricsIInv
    AccountsBalance
PROPERTIES
    EventuallyReported
CHECK_DEADLOCK FALSE
