SPECIFICATION Spec
CONSTANTS
    m1 = m1
    m2 = m2
    t1 = t1
    t2 = t2
    t3 = t3
    NoTrade = NoTrade
    Trades = {t1, t2}
    Jobs = {"mark", "resolve"}
    Markets = {m1, m2}
    Signals <- TwoMarkets
    FillPrices <- MCFillPrices
    MidPrices = {30, 90}
    Unit = 100
    Bank = 150
    MinEntryPrice = 3
    SimFillPriceMax = 97
    StopLossPct = 30
    TakeProfitPct = 50
    NoFlipTakeProfitPct = 50
    NoFlipStopLossPrice = 2
    Faults <- FaultKinds
    MaxCrashes = 1
CONSTRAINT Untainted
SYMMETRY Symmetry
INVARIANTS
    AccountExact
    ClampOnlyForgives
    PeakCovers
PROPERTIES
    PeakNeverFalls
