SPECIFICATION Spec
CONSTANTS
    MaxAddr = 4
    Align = 2
    MaxDevices = 3
    MaxLast = 3
INVARIANTS
    SortedDisjoint
    WindowCovers
    HintedLookupExact
PROPERTIES
    LookupTerminates
CHECK_DEADLOCK FALSE
