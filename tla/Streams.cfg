CONSTANTS
    NumProcs = 2
    FdLimit = 4
    Capacity = 2
    QueueLimit = 2
    TimeMax = 7
    FileLen = 3
    Programs <- MCPrograms
    MaxObjects = 4
SPECIFICATION FairSpec
INVARIANTS NoLostWakeup FileIsSentOnce
PROPERTIES PipesAreStreams HangupIsSeen
CHECK_DEADLOCK FALSE
