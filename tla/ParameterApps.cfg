SPECIFICATION AppsSpec
CONSTANTS
    Arguments <- SomeArguments
    MaxRounds = 2
    SampleAverage = 2
    ReadArguments <- SomeReadArguments
    MaxReadRounds = 2
    PoolThreads = 2
    Scenarios <- SomeScenarios
    Base = 4
    MaxWrites = 3
    MaxSignals = 2
    CommandLines <- SomeCommandLines
    StressCount = 3
    ByteMax = 3
    MaxStress = 6
    Tests <- SomeTests
    InputParameters <- TwoInputs
    MaxInputs = 2
INVARIANTS
    WindowsInRange
    CallbacksFindLocals
    
    
PROPERTIES
    ProgramsEnd
CHECK_DEADLOCK FALSE
