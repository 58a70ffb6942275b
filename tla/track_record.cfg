SPECIFICATION Spec
CONSTANTS
    p1 = p1
    p2 = p2
    p3 = p3
    a = a
    b = b
    Positions = {p1, p2, p3}
    Jobs = {1, 2}
    Markers = {1}
    Wallet <- MCWallet
    Tier <- MCTier
    Category <- MCCategory
    Start = 6
    Results <- MCResults
    Marks <- MCMarks
    TopN = 1
    MaxClock = 3
INVARIANTS
    RecordTypeOK
    DrawdownIsWorst
    BreakdownsAgree
PROPERTIES
    DrawdownNeverShrinks
CHECK_DEADLOCK FALSE
