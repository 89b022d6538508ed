CONSTANTS
    CPU = {c1, c2}
    Vcpu = {v1, v2}
    Sregs = {s1, s2}
    MaxAsid = 2
    MaxGen = 2
    None = None
SPECIFICATION Spec
SYMMETRY Symmetry
INVARIANTS
    TypeOK
    AsidExclusive
    VmcbCoherent
    HostGsOfThisCpu
