\* Programs that ask for what they like.
SPECIFICATION Spec
CONSTANTS
    HEAP_SIZE = 13
    HEAP_BLOCK_SIZE = 1
    Sizes <- SomeSizes
    MaxTaken = 3
    Careful = FALSE
INVARIANTS
    HeadersIntact
