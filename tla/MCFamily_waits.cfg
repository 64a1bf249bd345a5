\* Programs wait for the children that die before them.
SPECIFICATION FairSpec
CONSTANTS
    MaxPid = 5
    NbPcbs = 4
    Codes <- TwoCodes
    LeavesZombies = FALSE
\* The processes may all have exited, and kmain idles.
CHECK_DEADLOCK FALSE
INVARIANTS
    FamilyTypeOK
    FreeListSound
    NothingLost
    ChildrenAreOwn
    WalksEnd
    PpidIsAlive
    AnswersAreTrue
PROPERTIES
    WaitReturns
