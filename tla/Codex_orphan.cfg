SPECIFICATION FairSpec
CONSTANTS
    Bound = 1
    MaxFaults = 1
    Execution = Execution
    Nobody = Nobody
PROPERTY WatchdogCovers

CHECK_DEADLOCK FALSE
