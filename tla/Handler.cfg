SPECIFICATION FairSpec
CONSTANTS
    w1 = w1
    w2 = w2
    Workers <- TwoWorkers
    KeySpace = 2
    MaxRequests = 3
    MaxReplyCalls = 2
INVARIANTS
    TypeOK
    WaiterOwnsPromise
    StrayPromisesAreOversized
    ReplyReachesItsRequest
    NoFutureErrorBeforeWrap
PROPERTIES
    WaitingRequestTakesReply
    EveryRequestEnds
