SPECIFICATION Spec
CONSTANTS
    SliceQuanta <- MCQuanta
    Boundaries <- MCBoundaries
    Patience = 2
    MaxTime = 1000000
    CallSpecs <- MCCalls
    Programs = {1, 2}
    Arrivals = {0, 2}
    Confs <- MCConfs
    Opened = 2
    Horizon = 2
    Backlog = 2
CHECK_DEADLOCK FALSE
INVARIANTS
    DynamicMatchesStaticInStep
    SessionsHoldCalls
    MirrorAgrees
