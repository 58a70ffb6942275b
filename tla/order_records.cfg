SPECIFICATION FairSpec
CONSTANTS
    o1 = o1
    NoOrder = NoOrder
    Orders = {o1}
    MaxSends = 2
    MaxPolls = 2
    Faults = {"post", "refuse", "get", "cancel", "db", "crash"}
    MaxDbFaults = 1
    MaxCrashes = 1
INVARIANTS
    OrderTypeOK
    OrderInv
PROPERTIES
    LiveImplementsBook
    PendingEnds
    TaskEnds
