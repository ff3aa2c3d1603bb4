SPECIFICATION MCFilesSpec
CONSTANTS
    Names <- FileNames
    Paths <- FilePaths
    MaxDepth = 8
    Budget = 3
    Procs = {p1, p2}
    First = p1
    NumFds = 2
    OpenFlags <- FileFlags
    Byte = 1
    Image <- FileImage
    Targets <- LinkTargets
    HostFiles <- HostPaths
    MaxNodes = 5
    MaxLen = 2
    MaxCalls = 4
INVARIANTS DotDotLeadsBack
PROPERTIES NamesAreLinks VisibleIsKept FullDiskIsHarmless
CHECK_DEADLOCK FALSE
VIEW FilesView
SYMMETRY ProcSymmetry
