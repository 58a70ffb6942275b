SPECIFICATION FairSpec
CONSTANTS
    w1 = w1
    w2 = w2
    Wallets = {w1, w2}
    Scores <- MCScores
    Floor = 65
    MaxSize = 2
    Tiers <- MCTiers
    MaxBackoff = 2
    Faults = {"db", "redis", "malformed"}
INVARIANTS
    WatchTypeOK
    ListInv
    StreamKept
PROPERTIES
    EvictedNotCopied
    ShutdownEnds
