CONSTANTS
    Vcpus = {v1, v2}
    Zappers = {z1}
    Sp = {p1, p2, p3}
    gfn1 = gfn1
    gfn2 = gfn2
    Tables <- MCTables
    Slots = {1, 2}
    InUse <- MCInUse
    RootLevel = 3
    MinFree = 1
    Refill = 1
    Limits = {1, 2}
    Batch = 1
    MaxGen = 1
    None = None
SPECIFICATION Spec
SYMMETRY Symmetry
INVARIANTS
    TypeOK
    NoDangling
    CountsExact
    ValidUnique
    UnsyncMarked
    WritableUnsync
    ReloadRequested
    LimitKept
PROPERTIES
    ZapComplete
