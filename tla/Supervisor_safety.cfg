SPECIFICATION Spec
CONSTANTS
    a1 = a1
    a2 = a2
    Attempts <- TwoAttempts
    NoAttempt = NoAttempt
    RefusalThreshold = 3
    MaxFaults = 2
SYMMETRY Symmetry
INVARIANTS
    TypeOK
    EverythingJournaled
    SandboxWatched
    StoppedMeansGone
    CompletionIsFinal
PROPERTIES
    JournalSettles
    ImplementsCustody
