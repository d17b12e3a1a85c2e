SPECIFICATION Spec
CONSTANTS
    t1 = t1
    t2 = t2
    Threads <- TwoThreads
    MaxCalls = 2
    Writes = {2}
    MaxAnswers = 1
INVARIANT TransactionsInOrder
CHECK_DEADLOCK FALSE
