SPECIFICATION FairScan
CONSTANTS
    w1 = w1
    w2 = w2
    Discovery = Discovery
    Candidates = {w1, w2}
    Blocks <- MCBlocks
    PageSize = 2
    MaxRetries = 3
    MaxBlocks = 3
    MinVolume = 1
    MinTrades = 2
    MinResolved = 0
INVARIANTS
    ScanTypeOK
    HistoryWhole
    RaisedNotScored
PROPERTIES
    ScanEnds
CHECK_DEADLOCK FALSE
