SPECIFICATION Spec
CONSTANTS
    Pid = {p1, p2}
    Rid = {r1, r2, r3, f1}
    Foreign = {f1}
    Policy = "atlas"
    Quanta <- MCQuanta
    Inner <- MCInner
    Beta = 2
    Capacity = 1
    Over = 1
    Interval = 2
    MaxTime = 3
SYMMETRY Symmetry
CHECK_DEADLOCK FALSE
INVARIANTS
    NoTimeChargedTwice
    DecodeWithinCapacity
PROPERTIES
    FifoWithinQueue
    LifetimeStatisticsKept
    WindowStartsByPriority
    PlanFrozen
