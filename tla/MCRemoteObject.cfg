SPECIFICATION FairSpec
CONSTANTS
    Handlers = {h1, h2}
    Exporters = {e1, e2}
    MaxSends = 2
    MaxPasses = 1
    MaxFails = 1
    NoMsg = NoMsg
CHECK_DEADLOCK FALSE
INVARIANT RefsSound
INVARIANT Reachable
INVARIANT ForReal
PROPERTY CollectedOnce
