SPECIFICATION MCFairSpec
CONSTANTS
    MaxPid = 12
    Signals <- MCSignals
    Addrs = {4}
    Vals = {0, 1}
    Stores = {}
    Programs <- ProgressPrograms
    Calls <- ProgressCalls
    MaxClock = 1
    MaxFrames = 0
    MaxKeys = 0
    HostEvents = {"net"}
    ColdPages = FALSE
PROPERTIES RunnableRuns TimedWaitEnds
