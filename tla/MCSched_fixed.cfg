\* Fixed priorities, with processes that block.
SPECIFICATION FairSpec
CONSTANTS
    k = k
    p1 = p1
    p2 = p2
    None = None
    kmain = k
    Pcb <- ThreePcbs
    Priorities <- ThreePriorities
    MaxPriority = 2
    Schedulers <- FixedPriority
    MaxPid = 3
    NbPhases = 1
    YieldToUsed = FALSE
PROPERTIES
    ElectionTerminates
