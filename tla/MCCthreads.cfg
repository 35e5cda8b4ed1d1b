SPECIFICATION FairSpec
CONSTANTS
    Cprocs = {p0, p1, p2}
    First = p0
    Slots = {s0, s1, s2}
    MaxForks = 2
    MaxUnixForks = 1
    Limits = {2}
    None = None
CHECK_DEADLOCK FALSE
INVARIANT Bookkeeping
INVARIANT JoinGetsResult
PROPERTY EveryForkRuns
PROPERTY MainExits
