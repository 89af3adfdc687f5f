SPECIFICATION Spec
CONSTANTS
    k1 = k1
    k2 = k2
    Cids = {k1, k2}
    Objects <- TwoObjects
    MaxConvs = 2
    MaxExchanges = 2
    MaxFaults = 1
    MaxRewrites = 1
    NoRow = NoRow
    Idle = Idle
INVARIANTS
    TypeOK
    OneRowPerSession
    
 
CHECK_DEADLOCK FALSE
SYMMETRY Symmetry
