SPECIFICATION Spec
CONSTANTS
    m1 = m1
    m2 = m2
    t1 = t1
    t2 = t2
    t3 = t3
    Trades = {t1, t2, t3}
    Markets = {m1, m2}
    Related <- MCRelated
    Events <- MCEvents
    Ranks <- MCRanks
    Depths = {5, 40, 2000}
    Bank = 3000
    Bankrolls = {1000, 3000}
    MaxBank = 3000
    MinWhaleSize = 500
    MinEntryPrice = 3
    MaxEntryPrice = 90
    NoFlipMaxEntryPrice = 20
    ScoreFloor = 65
    MaxExposurePct = 5
    MaxLiquidityPct = 20
    MinCopySize = 50
    MicroMinDepth = 10
    MicroMaxSize = 40
    NoFlipMaxSize = 100
    Faults = {"redis", "db"}
SYMMETRY Symmetry
INVARIANTS
    SignalTypeOK
    ExposureInv
    GateInv
