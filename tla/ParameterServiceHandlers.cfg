SPECIFICATION Spec
CONSTANTS
    speed = speed
    level = level
    Words <- TwoWords
    Identities <- ThreeIdentities
    DataLinkEngine = 2
    Configurations <- JustBoth
    Files <- ThreeFiles
    BuiltIn <- BuiltInTable
    MaxRequests = 0
    MaxCalls = 1
INVARIANTS
    HandlersFindTheirParameter
CHECK_DEADLOCK FALSE
