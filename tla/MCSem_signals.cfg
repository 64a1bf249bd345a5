\* Signalling: any process may call sem_down, sem_up or sem_wait_for.
SPECIFICATION SemSpec
CONSTANTS
    k = k
    p1 = p1
    p2 = p2
    p3 = p3
    s1 = s1
    None = None
    kmain = k
    Pcb <- FourPcbs
    Priorities <- OnePriority
    MaxPriority = 1
    Schedulers <- NoChoice
    MaxPid = 4
    NbPhases = 1
    YieldToUsed = FALSE
    Sems <- OneSem
    InitialValue <- Zero
    WaitValues <- WaitForOne
    MaxPermits = 1
    Bracketed = FALSE
INVARIANTS
    SemTypeOK
    CounterCountsWaiters
    BlockedIsQueued
PROPERTIES
    ImplementsAbsSem
    ImplementsSched
