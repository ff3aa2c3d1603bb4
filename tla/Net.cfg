SPECIFICATION FairSpec
CONSTANTS
    s1 = s1
    s2 = s2
    Socks = {s1, s2}
    MaxHandle = 2
    MaxCalls = 6
    NoLimit = NoLimit
    Scenarios <- MCScenarios
INVARIANT MeterIsExact
PROPERTIES ImplementsSockets 
CHECK_DEADLOCK FALSE
