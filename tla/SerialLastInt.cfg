SPECIFICATION Spec
CONSTANTS
    Disks = {14, 15}
    FifoLen = 4
    Chunk = 2
    MaxTyped = 4
    MaxDone = 2
INVARIANT LastIntPending
