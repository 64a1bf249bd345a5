\* Processes come and go, map and unmap pages.
SPECIFICATION Spec
CONSTANTS
    os = os
    user = user
    child = child
    Process <- TwoProcesses
    kmain = os
    PAGE_SIZE = 2
    NbFrames = 3
    SECON_LVL_TT_COUN = 2
    FIRST_LVL_TT_SIZE = 4
    NbKernelTables = 1
    NbUserTables = 2
    FRAME_TABLE_SIZE = 1
    CmdBufferSize = 1
    PcbSize = 3
    MEMORY_SIZE = 2
    MmapSizes <- OneOrTwoPages
    kernel_heap_start = 4
    kernel_heap_limit = 36
    MaxCached = 1
\* kmain may have mapped all there is.
CHECK_DEADLOCK FALSE
INVARIANTS
    RegionsMapped
    FramesExact
    TlbIsolated
