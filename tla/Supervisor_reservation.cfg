SPECIFICATION FairSpec
CONSTANTS
    a1 = a1
    a2 = a2
    Attempts <- OneAttempt
    NoAttempt = NoAttempt
    RefusalThreshold = 3
    MaxFaults = 1
PROPERTIES
    WatchdogResolvesReservation
