\* Programs that ask for what malloc.c serves rightly.
SPECIFICATION FairSpec
CONSTANTS
    HEAP_SIZE = 13
    HEAP_BLOCK_SIZE = 1
    Sizes <- SomeSizes
    MaxTaken = 3
    Careful = TRUE
INVARIANTS
    MallocTypeOK
    ListSound
    FreeBlocksApart
    WithinHeap
PROPERTIES
    CallsReturn
    KeepsRegionsApart
