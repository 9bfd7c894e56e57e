SPECIFICATION Spec
CONSTANTS
    Pid = {p1}
    Rid = {r1, r2, r3, r4}
    Policy = "atlas"
    Quanta <- MCQuanta
    Inner <- MCInner
    Beta = 1
    Capacity = 2
    Over = 1
    Interval = 3
    Slots = 7
    HostLimit = 9
    Prompts = {1, 2, 3}
    MaxLen = 6
SYMMETRY Symmetry
CHECK_DEADLOCK FALSE
INVARIANTS
    NothingLeaks
    NothingRecomputed
    WorkGoesOn
    NoneRunsPast
