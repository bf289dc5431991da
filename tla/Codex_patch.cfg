SPECIFICATION Spec
CONSTANTS
    Bound = 2
    MaxFaults = 1
    Execution = Execution
    Nobody = Nobody
INVARIANT PatchOfSources

CHECK_DEADLOCK FALSE
