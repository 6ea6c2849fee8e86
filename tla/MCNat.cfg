SPECIFICATION FairSpec
CONSTANTS
    Slots <- MCSlots
    Ports = {"p", "q"}
    W = 8
    GuestIss = 6
    MaxSegment = 2
    Window = 2
    ResendRounds = 1
    Loads <- MCLoads
    MaxChain = 2
    MaxLost = 1
CHECK_DEADLOCK FALSE
INVARIANTS
    TypeOK
    StreamsIntact
    AckedIsWritten
    EndAfterData
PROPERTIES
    OutsideDataArrives
    SlotsFreed
