SPECIFICATION FairSpec
CONSTANTS
    Ops = {o1}
    None = None
    Execution = Execution
    MaxFaults = 2
PROPERTIES RecoveryEnds
