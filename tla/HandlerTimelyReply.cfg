SPECIFICATION Spec
CONSTANTS
    w1 = w1
    w2 = w2
    Workers <- TwoWorkers
    KeySpace = 3
    MaxRequests = 3
    MaxReplyCalls = 1
INVARIANT TimelyReplyIsKept
