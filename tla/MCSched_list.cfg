\* The process list and progress, from round robin to both priority schedulers. Three
\* creations on two pcbs: one is used again.
SPECIFICATION FairSpec
CONSTANTS
    k = k
    p1 = p1
    p2 = p2
    None = None
    kmain = k
    Pcb <- ThreePcbs
    Priorities <- TwoPriorities
    MaxPriority = 1
    Schedulers <- ByPriority
    MaxPid = 4
    NbPhases = 1
    YieldToUsed = FALSE
INVARIANTS
    TypeOK
    Ring
    OneCycle
    AloneMeansSelfLinked
    Counted
    RunsCurrent
PROPERTIES
    ElectsTopPriority
    NoStarvation
