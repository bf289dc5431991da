SPECIFICATION Spec
CONSTANTS
    Ops = {o1, o2}
    None = None
    Execution = Execution
    MaxFaults = 1
INVARIANTS RefusedLeavesNothing
CHECK_DEADLOCK FALSE
