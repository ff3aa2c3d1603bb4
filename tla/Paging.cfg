CONSTANTS
    NumPages = 4
    FileSize = 5
    ChunkSize = 2
    MaxAsid = 2
    MaxChanges = 2
    FirstOffset = 4
    Ops <- PagingOps
    Image <- MCImage
    Budgets <- MCBudgets
SPECIFICATION PagerFairSpec
INVARIANTS ColdIsInaccessible TicketIsCurrent
PROPERTIES PagingIsInvisible StoppedAccessEnds
CHECK_DEADLOCK FALSE
