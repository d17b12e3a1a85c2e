SPECIFICATION Spec
CONSTANTS
    p1 = p1
    p2 = p2
    Publishers <- TwoPublishers
    MaxValues <- TwoAndOne
INVARIANTS
    SubscriptionConsistent
PROPERTIES
    ValuesInOrder
    PublishedValueArrives
    EndsAreReached
CHECK_DEADLOCK FALSE
