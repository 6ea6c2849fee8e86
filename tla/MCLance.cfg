SPECIFICATION FairSpec
CONSTANTS
    Le = le
    Other = other
    nic_data <- MCNics
    RLEN = 2
    TLEN = 2
    BufLen = 1
    Lens = {1, 2}
    Modes <- MCModes
    MaxSent = 1
    MaxArrived = 2
    MaxRestarts = 1
    NULL = NULL
INVARIANTS
    TypeOK
    PartialPacketMatches
    TransmittedInOrder
    NoLostInterrupt
PROPERTIES
    ImplementsChannel
    Delivered
