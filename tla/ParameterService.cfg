SPECIFICATION Spec
CONSTANTS
    speed = speed
    level = level
    Words <- TwoWords
    Identities <- ThreeIdentities
    DataLinkEngine = 2
    Configurations <- TwoConfigurations
    Files <- ThreeFiles
    BuiltIn <- BuiltInTable
    MaxRequests = 1
    MaxCalls = 2
INVARIANTS
    ServiceConsistent
    ActionsOutliveRequests
PROPERTIES
    DestructionEnds
CHECK_DEADLOCK FALSE
