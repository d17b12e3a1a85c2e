SPECIFICATION Ros2Spec
CONSTANTS
    LifecycleClients = {1, 2}
    MaxTopic = 1
    ActionClients = {1, 2}
    Actions = {"firmware", "fibonacci"}
    Wanted <- SomeWanted
    Phases = 2
    OrderLimit = 4
    IntMax = 1
    MaxGoals = 2
    Requested <- SomeRequested
    InitialCounts = {0, 30}
    SizeMax = 2048
    Threads = {1, 2, 3}
    MaxCalls = 7
    PortConfig <- SomePortConfig
    PortSubscribers = {1, 2, 3}
    PortBase = 2
INVARIANTS
    LifecycleRespected
    GoalsInTurn
    DemoValuesHold
PROPERTY DemosEnd
CHECK_DEADLOCK FALSE
