SPECIFICATION FairSpec
CONSTANTS
    Disks = {14, 15}
    FifoLen = 4
    Chunk = 2
    MaxTyped = 4
    MaxDone = 2
INVARIANTS
    LineIsPending
    NothingTypedIsLost
PROPERTIES
    EverythingTypedIsRead
    DisksServed
