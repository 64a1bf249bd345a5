\* Mutual exclusion: programs release what they took.
SPECIFICATION FairSemSpec
CONSTANTS
    k = k
    p1 = p1
    p2 = p2
    p3 = p3
    s1 = s1
    None = None
    kmain = k
    Pcb <- FourPcbs
    Priorities <- OnePriority
    MaxPriority = 1
    Schedulers <- NoChoice
    MaxPid = 4
    NbPhases = 1
    YieldToUsed = FALSE
    Sems <- OneSem
    InitialValue <- One
    WaitValues <- NoWait
    MaxPermits = 1
    Bracketed = TRUE
INVARIANTS
    MutualExclusion
PROPERTIES
    WaitersServed
