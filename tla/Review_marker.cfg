SPECIFICATION Spec
CONSTANTS
    MaxOutput = 4
    MaxResponse = 8
    Overhead = 2
    Fields = 2
    WireFields = 1
    Html = 3
    Marker = 1
    MaxEntries = 2
    MaxMatches = 3
    MaxScan = 2
    MaxPreamble = 2
    Budget = 5
    MaxFile = 5
    MaxNames = 4
    MaxName = 3
    MaxHits = 2
INVARIANT CutIsMarked
CHECK_DEADLOCK FALSE
