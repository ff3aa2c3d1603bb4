CONSTANTS
    NumProcs = 2
    FdLimit = 4
    Capacity = 2
    QueueLimit = 2
    TimeMax = 7
    FileLen = 3
    Programs <- EdgePrograms
    MaxObjects = 4
SPECIFICATION Spec
INVARIANT EdgeWasReported
CHECK_DEADLOCK FALSE
