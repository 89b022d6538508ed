CONSTANTS
    c1 = c1
    c2 = c2
    c3 = c3
    CPU <- MCCPU
    Busy <- MCBusy
    MaxVMs = 2
SPECIFICATION Spec
INVARIANTS
    TypeOK
    UsageCountExact
    EnabledIffSvme
    UsersHaveSvm
    IdleIsOff
