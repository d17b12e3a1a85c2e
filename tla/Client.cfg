SPECIFICATION Spec
CONSTANTS
    t1 = t1
    t2 = t2
    Threads <- TwoThreads
    MaxCalls = 2
    Writes = {2}
    MaxAnswers = 2
INVARIANTS
    ClientConsistent
PROPERTIES
    ImplementsTransaction
    ClientProgress
CHECK_DEADLOCK FALSE
