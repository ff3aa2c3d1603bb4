SPECIFICATION MCSpec
CONSTANTS
    MaxPid = 11
    Signals <- MCSignals
    Addrs = {4}
    Vals = {0, 1}
    Stores = {}
    Programs <- SleepPrograms
    Calls <- SleepCalls
    MaxClock = 1
    MaxFrames = 0
    MaxKeys = 0
    HostEvents = {}
    ColdPages = FALSE
INVARIANTS NeverAstray
