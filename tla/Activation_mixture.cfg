SPECIFICATION Spec
CONSTANTS
    Order <- TwoNames
    MaxActivations = 3
    MaxFaults = 4
INVARIANTS LaunchNeverMixes
CHECK_DEADLOCK FALSE
