SPECIFICATION Spec
CONSTANTS
    t1 = t1
    t2 = t2
    t3 = t3
    k1 = k1
    k2 = k2
    Trades <- MCTrades
    Keys <- MCKeys
    KeyOf <- MCKeyOf
    MaxSize = 2
    MaxCrashes = 1
INVARIANTS
    LedgerTypeOK
    LedgerInv
    CountedOnce
CHECK_DEADLOCK FALSE
