SPECIFICATION Spec
CONSTANTS
    Pid = {p1}
    Rid = {r1, r2, r3, r4}
    Policy = "atlas"
    Quanta <- MCQuanta
    Inner <- MCInner
    Beta = 1
    Capacity = 2
    Over = 2
    Interval = 2
    Slots = 7
    Budget = 5
    Prompts = {1, 3}
    MaxLen = 7
SYMMETRY Symmetry
CHECK_DEADLOCK FALSE
INVARIANTS
    ReserveLasts
    NoneRunsPast
PROPERTIES
    FlushBeforeReuse
