SPECIFICATION MCSpec
CONSTANTS
    MaxPid = 12
    Signals <- MCSignals
    Addrs = {4}
    Vals = {0, 1}
    Stores = {1}
    Programs <- SafetyPrograms
    Calls <- SafetyCalls
    MaxClock = 2
    MaxFrames = 0
    MaxKeys = 2
    HostEvents = {"type", "net", "resize"}
    ColdPages = TRUE
INVARIANTS ParkedOnce SpaceOfEveryTask VforkParentSuspended VforkParentReleasable NoSleeperOnClearedWord StopIsGroupWide PauseIsExplained
PROPERTIES  PrivateMemory SigchldAnnounced SatisfiedWaitIsNotInterrupted DeadlockIsReal HostHasItsTurn
