SPECIFICATION Spec
CONSTANTS
    MaxCommands = 2
    HostDeadline = 3
    ClientDeadline = 3
    MaxClients = 3
    MaxRequests = 4
    None = None
INVARIANTS
    RunsAtMostOnce
    AnswerIsOwn
    NeverOutOfSequence
CHECK_DEADLOCK FALSE
