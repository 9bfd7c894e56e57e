SPECIFICATION Spec
CONSTANTS
    SliceQuanta <- MCQuanta
    Boundaries <- MCBoundaries
    Patience = 2
    Scenarios <- MCScenarios
    MaxTime = 200
CHECK_DEADLOCK FALSE
INVARIANTS
    TimeAccounted
    ServiceIsCharged
    CriticalPathBounds
PROPERTIES
    WindowKept
    AllFinish
