\* Programs exit without waiting, as test/kmain-fork.c does.
SPECIFICATION Spec
CONSTANTS
    MaxPid = 4
    NbPcbs = 3
    Codes <- OneCode
    LeavesZombies = TRUE
\* The processes may all have exited, and kmain idles.
CHECK_DEADLOCK FALSE
INVARIANTS
    OrphansAreNoZombies
