SPECIFICATION Spec
CONSTANTS
    Ops = {o1, o2}
    None = None
    Execution = Execution
    MaxFaults = 2
INVARIANTS
    StoppedMeansUnmounted
    ReadyIsUsable
PROPERTIES
    ImplementsProfileCustody
    RemovedUnused
    ReadyIsDurable
CHECK_DEADLOCK FALSE
