CONSTANTS
    None = None
    Null = Null
    Base = 16
    NumCells = 2
    Invocations <- MCInvocations
    Kernels <- MCKernels
    Ramdisks <- MCRamdisks
    Taken = {"taken"}
    strtoul <- MCStrtoul
    FirstAllocated = 4
    HeaderCells = 2
    SectorSize = 1
    OldestProtocol = 2
    KernelLoc = 24
    BzMemsz = 7
    DEFAULT_RAMDISK_BASE = 31
    CONVERTLOC = 2
    REAL_MODE_DATA_LOC = 16
    GDTLOC = 18
    CMDLINE_MAX = 4
    Code <- MCCode
    bss_size = 2
    gdt_size = 2
    NoteAlign = 4
    MaxInterrupts = 2
    E820MAX = 2
    CommandLine = 4
    PageRoom = 12
    Blank = 7
    Kilo = 2
    OneM = 2
    AltMax = 10
    ExtMax = 5
    Ext64M = 4
    HighLimit = 40
    HugeK = 31
    AddressSpace = 64
    PCBIOS <- MCPcbios
    LINUXBIOS <- MCLinuxbios
    Boots <- MCBoots
    TopAddress = 48
SPECIFICATION Spec
CHECK_DEADLOCK FALSE
INVARIANT ImageChecksum
INVARIANT ImageAsLoaded
INVARIANT MemoryAsReported
INVARIANT CommandLineKept
PROPERTY Ends
