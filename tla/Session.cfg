SPECIFICATION FairSpec
CONSTANTS
    Paths <- MCPaths
    NameOrder <- MCNameOrder
    BytesOf <- MCBytesOf
    LayoutOf <- MCLayoutOf
    NamedBytes <- MCNamedBytes
    Images <- MCImages
    Slots = {1, 2}
    Fuel = 2
    MaxLength = 3
    MaxIcount = 4
    MaxArgs = 3
    Scenarios <- MCScenarios
INVARIANTS NothingSecretIsSaved
PROPERTIES ImplementsSavedSession OnlyNamedImagesRun ArgumentsAreExact AllowanceStopsTheGuest
CHECK_DEADLOCK FALSE
