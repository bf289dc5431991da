SPECIFICATION LoopSpec
CONSTANTS
    Bound = 3
    Base = 2
    Cap = 11
    MaxPolls = 5
INVARIANTS
    StopsWhenItMust
    PausesArePaced
CHECK_DEADLOCK FALSE
