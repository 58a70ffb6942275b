SPECIFICATION FairSpec
CONSTANTS
    m1 = m1
    m2 = m2
    t1 = t1
    t2 = t2
    t3 = t3
    NoTrade = NoTrade
    Trades = {t1, t2}
    Jobs = {"fast"}
    Markets = {m1, m2}
    Signals <- Spread
    FillPrices <- MCFillPrices
    MidPrices = {50, 90}
    Unit = 100
    Bank = 150
    MinEntryPrice = 3
    SimFillPriceMax = 97
    StopLossPct = 30
    TakeProfitPct = 50
    NoFlipTakeProfitPct = 50
    NoFlipStopLossPrice = 2
    Faults <- FaultKinds
    MaxCrashes = 1
INVARIANTS
    TypeOK
    SlotInv
PROPERTIES
    ImplementsBook
    TradeAnswered
    JobRunEnds
