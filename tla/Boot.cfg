CONSTANTS
    Big = 4
    Radix = 3
    LoopPages = 13
    MaxPage = 36
    Machines <- SmallMachines
    Cpus <- SmallCpus
    OldVms <- StackContents
    OldVmcbs <- PageContents
SPECIFICATION FairSpec
INVARIANT TypeOK
INVARIANT EnteredPrepared
INVARIANT OwnPagesUnreachable
INVARIANT OwnPagesDistinct
INVARIANT HandsOverToIntercept
PROPERTY CapableBoots
