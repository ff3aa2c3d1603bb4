SPECIFICATION Spec
CONSTANTS
    s1 = s1
    s2 = s2
    Socks = {s1, s2}
    MaxHandle = 2
    MaxCalls = 6
    NoLimit = NoLimit
    Scenarios <- ReplayScenarios
INVARIANT ReplayAgrees
CHECK_DEADLOCK FALSE
