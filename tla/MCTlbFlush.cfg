CONSTANTS
    Gfn = {g1}
    Page = {p1, p2}
    Vcpu = {v1}
    Notifier = {n1}
    MaxSeq = 2
    MaxTrack = 1
    None = None
SPECIFICATION TlbSpec
INVARIANT RangeFlushed
