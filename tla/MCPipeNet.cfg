SPECIFICATION Spec
CONSTANTS
    Conns = {n1, n2}
    Pairs = {n1}
    Servers = {s1, s2}
    Nobody = Nobody
    InitialQmax = 2
    Qmaxes <- MCQmaxes
    Interruptible = {n1, s1, s2}
    MaxPosts = 1
    MaxDisconnects = 2
CONSTRAINT Bounded
SYMMETRY Symmetry
CHECK_DEADLOCK FALSE
INVARIANT RequestSound
INVARIANT AnswerSound
INVARIANT NobodyWaits
PROPERTY AbsSpec
