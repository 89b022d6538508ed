CONSTANTS
    AddressSpaces <- MCOneSpace
    SlotsNum = 2
    UserSlots = 1
    MaxGfn = 1
    FaultGfns = {1}
    Requests <- MCToggle
    GenMod = 16
    Readers = {r1}
    MaxUpdates = 4
SPECIFICATION Spec
INVARIANT MmioSpteFresh
