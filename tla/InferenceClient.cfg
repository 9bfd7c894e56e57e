SPECIFICATION Spec
CONSTANTS
    Caller = {c1, c2}
    Name = {n1}
    Sid = {s1, s2}
    MaxText = 1
    None = None
SYMMETRY Symmetry
CHECK_DEADLOCK FALSE
INVARIANTS
    NothingOrphaned
    CancelHolds
    StreamIsComplete
    ClosedIsEnded
