CONSTANTS
    Frames = {f1}
    Pages = {p1}
    Sptes = {s1, s2, s3, s4}
    PTE_LIST_EXT = 3
    RMAP_RECYCLE_THRESHOLD = 1000
    CacheSize = 3
    CacheMin = 2
    FaultAdds = 2
    NULL = NULL
    NoHead = NoHead
SPECIFICATION Spec
SYMMETRY Symmetry
INVARIANT
    AddReturnsLength
