\* A kernel and two processes on 40 pages, the second of which may not fit.  The
\* allocator's last two pages lie behind the heap that the kernel maps.
SPECIFICATION Spec
CONSTANTS
    Entries = 4
    PageSize = 2
    Frames <- MCFrames
    KernelRoot = 24
    Defaults <- MCDefaults
    Devices <- MCDevices
    Image <- MCImage
    FrameAddress = 2
    StackAddress = 128
    StackPages = 2
    MaxRoots = 3
    MaxData = 12
INVARIANTS
    UserPagesPrivate
    RangesStayMapped
    TablesAreTrees
    FaultsOnlyWhenFull
PROPERTIES
    ImplementsSpaces
CHECK_DEADLOCK FALSE
