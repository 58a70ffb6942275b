SPECIFICATION Spec
CONSTANTS
    p1 = p1
    w1 = w1
    w2 = w2
    Unset = Unset
    Positions = {p1}
    Workers = {w1, w2}
    Size <- Costs
    Payouts = {0, 3}
    SimStart = 3
    LiveStart = 4
    DrawdownPct = 15
    MaxFaults = 0
    MaxStops = 1
    MaxResets = 0
PROPERTIES
    BreakerTrips
