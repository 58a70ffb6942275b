SPECIFICATION Spec
CONSTANTS
    m1 = m1
    m2 = m2
    t1 = t1
    t2 = t2
    t3 = t3
    NoTrade = NoTrade
    Trades = {t1, t2}
    Jobs = {}
    Markets = {m1, m2}
    Signals <- Mixed
    FillPrices <- MCFillPrices
    MidPrices = {50}
    Unit = 100
    Bank = 300
    MinEntryPrice = 3
    SimFillPriceMax = 97
    StopLossPct = 30
    TakeProfitPct = 50
    NoFlipTakeProfitPct = 50
    NoFlipStopLossPrice = 2
    Faults = {}
    MaxCrashes = 0
CHECK_DEADLOCK FALSE
PROPERTIES
    CopyOpensAlone
