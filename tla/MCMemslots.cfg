CONSTANTS
    AddressSpaces <- MCSpaces
    SlotsNum = 4
    UserSlots = 3
    MaxGfn = 2
    FaultGfns = {1}
    Requests <- MCRequests
    GenMod = 64
    Readers = {r1}
    MaxUpdates = 4
SPECIFICATION Spec
INVARIANTS
    TypeOK
    InstalledWellFormed
    NoWarn
    MmioSpteFresh
    GenerationsUnique
PROPERTIES
    ReadersStable
    UpdateEnds
