SPECIFICATION Spec
CONSTANTS
    Users = {u1, u2}
    Pages = 2
    PageSize = 2
    MaxGens = 2
    MaxOps = 2
    MaxSweeps = 2
    Lengths = {0, 1, 3}
    None = None
CHECK_DEADLOCK FALSE
SYMMETRY Symmetry
INVARIANT MessagesMet
INVARIANT NothingLost
INVARIANT NoneForgotten
CONSTRAINT Bounded
