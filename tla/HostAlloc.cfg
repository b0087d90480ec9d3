CONSTANTS
    PageSize = 4
    ByteBits = 2
    WordBytes = 2
    MaxEntries = 3
    Maps <- SmallMaps
    AbStart = 8
    PmemStart = 4
    PmemSize = 48
    Requests <- SmallRequests
SPECIFICATION Spec
INVARIANT TypeOK
INVARIANT GrantsDisjoint
INVARIANT GrantsInHeap
INVARIANT BitmapExact
INVARIANT NoOverrun
PROPERTY ImplementsPageAllocator
