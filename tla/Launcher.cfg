SPECIFICATION Spec
CONSTANTS
    a1 = a1
    a2 = a2
    a3 = a3
    Apps <- ThreeApps
    Policy <- ThreePolicies
    Pids = {1, 2, 3}
    MaxExits = 3
    MaxForkFailures = 1
INVARIANTS
    LauncherConsistent
    PolicyRespected
PROPERTIES
    ShutdownCompletes
    EndedAppRunsAgain
CHECK_DEADLOCK FALSE
