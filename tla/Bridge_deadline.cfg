SPECIFICATION Spec
CONSTANTS
    MaxCommands = 2
    HostDeadline = 3
    ClientDeadline = 3
    MaxClients = 2
    MaxRequests = 4
    None = None
INVARIANT AnsweredInTime
CHECK_DEADLOCK FALSE
