SPECIFICATION Spec
CONSTANTS
    p1 = p1
    w1 = w1
    w2 = w2
    Unset = Unset
    Positions = {p1}
    Workers = {w1, w2}
    Size <- Costs
    Payouts = {0, 3}
    SimStart = 3
    LiveStart = 4
    DrawdownPct = 15
    MaxFaults = 1
    MaxStops = 2
    MaxResets = 1
INVARIANTS
    BookTypeOK
    PeakCoversLive
    PeakEarned
    PaperBalance
    ReportTies
PROPERTIES
    LiveRepaired
