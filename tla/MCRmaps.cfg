CONSTANTS
    Frames = {f1, f2}
    Pages = {p1}
    Sptes = {s1, s2, s3, s4, s5, s6}
    PTE_LIST_EXT = 2
    RMAP_RECYCLE_THRESHOLD = 1
    CacheSize = 3
    CacheMin = 2
    FaultAdds = 2
    NULL = NULL
    NoHead = NoHead
SPECIFICATION Spec
SYMMETRY Symmetry
INVARIANTS
    TypeOK
    NoBug
    RmapsExact
    ChainsPacked
    ChainBounded
PROPERTY
    ImplementsSet
