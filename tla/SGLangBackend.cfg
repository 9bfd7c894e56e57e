SPECIFICATION Spec
CONSTANTS
    Pid = {p1}
    Rid = {r1, r2}
    Policy = "atlas"
    None = None
SYMMETRY Symmetry
CHECK_DEADLOCK FALSE
INVARIANTS
    ResultIsAccounted
    CancellationSettles
