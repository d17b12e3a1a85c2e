SPECIFICATION Spec
CONSTANTS
    service = service
    consumer = consumer
    byte = byte
    Threads = {service, consumer}
    Roots <- TwoRoots
    BuiltInSets <- SomeBuiltIns
    Bytes = {byte}
    StatusCodes = {1, 2}
    Slack = 2
    Cleaners = {1, 2, 3}
    ProcessOf <- TwoProcesses
    Registering = {2}
    MaxInodes = 6
    Remotes <- SomeRemotes
    Endpoints <- SomeEndpoints
    SpyProcess = "spy"
    Samples <- SomeSamples
    MaxCalls = 2
    MaxRequests = 1
    GroupCounts = {0, 1, 2}
    CodeServers = {1, 2}
INVARIANTS
    RegistryClosed
    SamplesSurvive
    OnlyExceptionsAreRefused
    CleanupIsHarmless
    SpySeesTheNetwork
    
PROPERTY LibraryProgress
CHECK_DEADLOCK FALSE
