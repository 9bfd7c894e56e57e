SPECIFICATION FairSpec
CONSTANTS
    Pid = {p1}
    Rid = {r1}
    Query = {}
    Replica = {0, 1}
    NoReplica = NoReplica
    None = None
    Policy = "atlas"
    MaxKills = 1
    Closing = TRUE
CHECK_DEADLOCK FALSE
PROPERTIES
    CallsResolve
    EndedSessionsLeave
