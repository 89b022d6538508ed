CONSTANTS
    Threads = {t1, t2}
    Vcpus = {c1, c2}
    Ids = {i1, i2}
    VMRUN_MAX_VCPUS = 2
    MaxFds = 2
    None = None
SPECIFICATION Spec
CHECK_DEADLOCK FALSE
INVARIANTS
    TypeOK
    ReferencesKeepAlive
    VcpusCounted
    AllFreed
    MutexHeld
PROPERTIES
    KernelReturns
