SPECIFICATION Spec
CONSTANTS
    Pid = {p1, p2}
    Rid = {r1, r2}
    Query = {}
    Replica = {0}
    NoReplica = NoReplica
    None = None
    Policy = "atlas"
    MaxKills = 1
    Closing = TRUE
SYMMETRY Symmetry
CHECK_DEADLOCK FALSE
INVARIANTS
    RowsBelongToCalls
    SessionsArePrograms
    ClosedIsClean
PROPERTIES
    ServiceSpec
