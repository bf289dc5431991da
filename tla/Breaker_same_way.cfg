SPECIFICATION LoopSpec
CONSTANTS
    Bound = 3
    Base = 2
    Cap = 11
    MaxPolls = 5
INVARIANTS
    StopsOnTheSameWay
CHECK_DEADLOCK FALSE
