SPECIFICATION Spec
CONSTANTS
    Order <- TwoNames
    MaxActivations = 2
    MaxFaults = 3
INVARIANTS BackupsSurvivePower
CHECK_DEADLOCK FALSE
