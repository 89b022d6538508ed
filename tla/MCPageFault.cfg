CONSTANTS
    Gfn = {g1, g2}
    Page = {p1, p2}
    Vcpu = {v1, v2}
    Notifier = {n1, n2}
    MaxSeq = 2
    MaxTrack = 1
    None = None
SPECIFICATION Spec
SYMMETRY Symmetry
INVARIANTS
    TypeOK
    SptesBacked
    TrackedReadOnly
