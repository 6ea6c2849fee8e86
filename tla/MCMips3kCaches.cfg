SPECIFICATION Spec
CONSTANTS
    VPages <- ThreePages
    PPages <- TwoPages
    NULL = NULL
    MaxVph = 2
    TcPages = 1
    Slots <- TwoSlots
    RangeOf <- RangePerSlot
    Kseg <- TwoKseg0
    KsegPhys <- AliasPhys
    Uncached <- Kseg1
    Vector = 1
    Asids = {a0}
    NTlb = 1
INVARIANTS
    TypeOK
    FastTablesConsistent
    FastTablesCoherent
    NoDanglingPhysPage
    BitmapCoversTranslations
    IsolatedStoresBlocked
CHECK_DEADLOCK FALSE
