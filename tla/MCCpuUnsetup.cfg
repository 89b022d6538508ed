CONSTANTS
    c1 = c1
    c2 = c2
    c3 = c3
    CPU <- MCCPU
    Busy <- MCNoneBusy
    MaxVMs = 1
SPECIFICATION Spec
INVARIANT UnsetupFreesAll
