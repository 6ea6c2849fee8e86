SPECIFICATION FairSpec
CONSTANTS
    Owners = {d1, d2}
    Nodes = {n1, n2}
    NULL = NULL
    Freqs = {1, 2}
    Second = 2
    Step = 1
    SyncEvery = 1
    Lags <- MCLags
    MaxPending = 1
    MaxBurst = 1
INVARIANTS
    TypeOK
    HandlerSeesTimers
    QuietWhenDisabled
    SignalHandled
PROPERTIES
    KeepsInterrupting
