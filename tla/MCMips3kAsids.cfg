SPECIFICATION Spec
CONSTANTS
    VPages <- ThreePages
    PPages <- OnePage
    NULL = NULL
    MaxVph = 1
    TcPages = 1
    Slots <- OneSlot
    RangeOf <- RangePerSlot
    Kseg <- OneKseg0
    KsegPhys <- OneKseg0Phys
    Uncached <- NoPages
    Vector = 1
    Asids = {a0, a1}
    NTlb = 2
SYMMETRY AsidSymmetry
INVARIANTS
    FastTablesCoherent
CHECK_DEADLOCK FALSE
