SPECIFICATION Spec
CONSTANTS
    Pid = {p1, p2}
    Rid = {r1, r2, r3, r4}
    Seconds = {0, 1, 2}
    Policy = "atlas"
SYMMETRY Symmetry
INVARIANTS
    ActiveCountsRows
    EndedProgramDrains
    ServiceIsCriticalPath
PROPERTIES
    EndedStaysEnded
