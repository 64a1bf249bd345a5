\* Contexts that can be told apart, forks and pcbs that are used again, sys_yieldto included,
\* under round robin.
SPECIFICATION Spec
CONSTANTS
    k = k
    p1 = p1
    p2 = p2
    None = None
    kmain = k
    Pcb <- ThreePcbs
    Priorities <- OnePriority
    MaxPriority = 1
    Schedulers = {}
    MaxPid = 4
    NbPhases = 2
    YieldToUsed = TRUE
INVARIANTS
    ContextPreserved
    RandomReachesAll
