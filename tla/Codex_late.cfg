SPECIFICATION Spec
CONSTANTS
    Bound = 2
    MaxFaults = 3
    Execution = Execution
    Nobody = Nobody
PROPERTY RemovalFences

CHECK_DEADLOCK FALSE
