SPECIFICATION FairSpec
CONSTANTS
    Programs <- MCPrograms
    LastAddr = 7
    PageSize = 2
    RegMax = 2
    MaxBlock = 3
    MaxTrace = 3
    MaxCandidates = 2
    MaxICount = 28
    Burst = 9
INVARIANTS HandlesAreLive SliceIsExact
PROPERTIES ImplementsProcessor SliceEnds
