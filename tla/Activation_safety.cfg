SPECIFICATION FairSpec
CONSTANTS
    Order <- TwoNames
    MaxActivations = 3
    MaxFaults = 4
INVARIANTS
    LaunchSeesOneGeneration
    OutcomeIsTruthful
    BackupsOutliveMarker
PROPERTIES
    RecoveryConverges
CHECK_DEADLOCK FALSE
