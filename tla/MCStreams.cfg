SPECIFICATION Spec
CONSTANTS
    Readers = {r1, r2}
    Writers = {w1}
    Others = {o1}
    NoThread = NoThread
    Kinds = {"bytes", "records"}
    Calls <- MCCalls
    Inputs <- MCInputs
    qmax = 3
    maximum_xfer = 2
    MaxItems = 3
    MaxControl = 1
SYMMETRY Symmetry
CHECK_DEADLOCK FALSE
INVARIANT CountsSound
INVARIANT NoneWaitsInVain
PROPERTY AbsSpec
