SPECIFICATION FairSpec
CONSTANTS
    NBlocks = 3
    BlocksPerByte = 2
    Zero <- MCZero
    Leftovers <- MCLeftovers
    Images <- MCImages
    Parts = 2
    MaxCount = 3
    MaxPerChunk = 2
    Payloads <- MCPayloads
    MaxDeaths = 1
    MaxAbandoned = 1
    MaxCommands = 3
CHECK_DEADLOCK FALSE
INVARIANTS
    TypeOK
    FewBlocksAtRisk
    WritesArrive
    ReadsIntact
PROPERTIES
    ImplementsDisk
    CommandsEnd
