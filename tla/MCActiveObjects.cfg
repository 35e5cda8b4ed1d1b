SPECIFICATION Spec
CONSTANTS
    Files = {f1, f2}
    Dirs = {d1}
    Users = {u1, u2}
    NoKey = NoKey
    MaxOpens = 3
    MaxSweeps = 2
CHECK_DEADLOCK FALSE
INVARIANT TableSound
INVARIANT NoLostWaiter
PROPERTY CleanedIsClean
