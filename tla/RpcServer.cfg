SPECIFICATION Spec
CONSTANTS
    w1 = w1
    w2 = w2
    Workers <- TwoWorkers
    MaxRequests = 2
    MaxResends = 1
INVARIANTS
    ServerConsistent
PROPERTIES
    
    ServerEnds
CHECK_DEADLOCK FALSE
