SPECIFICATION Spec
CONSTANTS
    Pid = {p1}
    Rid = {r1, r2}
    Query = {q1}
    Replica = {0, 1}
    NoReplica = NoReplica
    None = None
    Policy = "atlas"
    MaxKills = 1
    Closing = FALSE
SYMMETRY CallSymmetry
CHECK_DEADLOCK FALSE
INVARIANTS
    ReplicasAgree
    NoFutureForgotten
    LongCallsTogether
