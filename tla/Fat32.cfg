CONSTANTS
    SectorCells = 5
    LastSector = 12
    Cell <- MCCell
    NoSector <- MCNoSector
    Names <- MCNames
    Segments <- MCSegments
    Shorter = {}
    ShortOf <- MCShortOf
    Paths <- MCPaths
    Reads = {1}
    Positions = {0}
    TF_FILE_HANDLES = 4
    MinClusters = 4
    DirSize = 1000
    Formats <- MCFormats
    FormattedDisk <- MCDisk
    Layouts = {TRUE, FALSE}
    Failing = {0, 5}
    MaxCalls = 5
    MaxWrite = 2
SPECIFICATION Spec
CHECK_DEADLOCK FALSE
INVARIANT TypeOK
INVARIANT CacheCoherent
INVARIANT DirtyOwned
INVARIANT DirectoryExact
INVARIANT NullMeansExhausted
