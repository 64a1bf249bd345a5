\* Processes come and go, one of them while another lives that will wait for it.
SPECIFICATION Spec
CONSTANTS
    os = os
    user = user
    child = child
    Process <- ThreeProcesses
    kmain = os
    PAGE_SIZE = 2
    NbFrames = 3
    SECON_LVL_TT_COUN = 2
    FIRST_LVL_TT_SIZE = 4
    NbKernelTables = 1
    NbUserTables = 2
    FRAME_TABLE_SIZE = 1
    CmdBufferSize = 1
    PcbSize = 3
    MEMORY_SIZE = 2
    MmapSizes <- TwoPages
    kernel_heap_start = 4
    kernel_heap_limit = 48
    MaxCached = 0
\* kmain may have mapped all there is.
CHECK_DEADLOCK FALSE
INVARIANTS
    FreeListApart
PROPERTIES
    KeepsBlocksApart
