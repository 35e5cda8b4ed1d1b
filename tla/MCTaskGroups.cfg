SPECIFICATION Spec
CONSTANTS
    Threads = {t1, t2, t3}
    Names = {g1, g2}
    Tags = {e1, e2, e3}
    Objs = {o1, o2}
    None = None
    MaxEvents = 1
SYMMETRY Symmetry
CHECK_DEADLOCK FALSE
INVARIANT LinksSound
INVARIANT NoLostSleeper
INVARIANT MemberFound
INVARIANT Disappears
