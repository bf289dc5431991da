SPECIFICATION FairSpec
CONSTANTS
    Bound = 2
    MaxFaults = 4
    Execution = Execution
    Nobody = Nobody
INVARIANTS
    StoppedMeansGone
    SourcesIntact
PROPERTIES
    ImplementsProfileCustody
    ExecutionEnds
    WatchdogStops
CHECK_DEADLOCK FALSE
