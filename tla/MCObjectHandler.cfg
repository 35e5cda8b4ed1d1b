SPECIFICATION FairSpec
CONSTANTS
    Threads = {t1, t2, t3, t4, t5}
    min_waiting = 1
    max_waiting = 2
    Limits = {0, 3}
    Kinds = {"rpc", "oneway", "unknown"}
    MaxReqs = 3
    MaxErrs = 2
CHECK_DEADLOCK FALSE
INVARIANT PoolSound
INVARIANT ReplySound
PROPERTY EveryRequestReceived
