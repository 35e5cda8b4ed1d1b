SPECIFICATION FairSpec
CONSTANTS
    Threads = {t1, t2, t3}
    Conds = {c1, c2}
    NoThread = NoThread
    MaxOps = 2
CHECK_DEADLOCK FALSE
INVARIANT NoStrayWakeup
INVARIANT LeavesWaitReleased
INVARIANT NoLostWakeup
PROPERTY AbsSpec
PROPERTY WokenReturns
