SPECIFICATION Spec
CONSTANTS
    Waiters = {w1, w2}
    Posters = {p1, p2}
    NoThread = NoThread
    arrived = arrived
    MaxPosts = 3
    MaxChildren = 2
SYMMETRY Symmetry
CHECK_DEADLOCK FALSE
INVARIANT NoDanglingRecord
INVARIANT PostNeverMissed
INVARIANT OldestKept
