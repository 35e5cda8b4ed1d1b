SPECIFICATION Spec
CONSTANTS
    root = root
    mid = mid
    kid = kid
    Tasks = {root, mid, kid}
    Parent <- MCParent
    Senders = {s1, s2}
    None = None
    MaxEvents = 3
    Targets = {mid, kid}
CONSTRAINT Bounded
SYMMETRY Symmetry
CHECK_DEADLOCK FALSE
INVARIANT EventsApplied
INVARIANT StateSound
INVARIANT DeathReported
INVARIANT CyclesKnown
